---- MODULE Spec2Model ----
(***************************************************************************)
(* The planner store (zustand store usePlannerStore): tasks, time logs,    *)
(* the inline-edit descriptor, and the derived aggregates.                  *)
(*                                                                          *)
(* Time.  An instant is a whole number of clock ticks since the epoch; one  *)
(* tick is half a second, so a difference of instants is a multiple of 500  *)
(* ms and Math.round has halves to round.  An ISO string (toISOString) is   *)
(* the record [date, time] of the instant's UTC day and its offset in that  *)
(* day; parseISO maps it back.  A JavaScript object is a function from its  *)
(* keys to values: an optional field that is not set is a key that is not   *)
(* in the DOMAIN, and {...a, ...b} is Merge(a, b).                          *)
(*                                                                          *)
(* Every handler of the store runs to completion on the one JavaScript      *)
(* thread, so one action is one call; the clock is read once per call.      *)
(***************************************************************************)
EXTENDS Integers, Sequences, FiniteSets, TLC

VARIABLES
    items,               \* PlannerState.items: PlannerItem[]
    timeLogs,            \* PlannerState.timeLogs: TimeLog[]
    inlineEditMetadata,  \* PlannerState.inlineEditMetadata, Null when null
    now,                 \* the wall clock (Date.now()), in ticks
    tz,                  \* local time minus UTC, in ticks (fixed per run)
    idCount,             \* how many ids generateId has handed out
    calls,               \* how many store calls were made (counted by Spec)
    timer,               \* the useTimer hook of a mounted component, or Null
    widgets,             \* the mounted TimerWidgets, by name
    storage,             \* localStorage[STORAGE_KEY]: what persist wrote last
    otherTab,            \* the store of a second tab over the same storage, or Null
    last                 \* the last call: its name, arguments and pre-state

vars == <<items, timeLogs, inlineEditMetadata, now, tz, idCount, calls, timer,
          widgets, storage, otherTab, last>>

----------------------------------------------------------------------------
(* Bounds of the model *)

\* Spec: a run makes at most MaxCalls calls of store operations
MaxCalls == 4
\* SpecLogs: at most MaxItems tasks and MaxLogs logs are stored at a time, and
\* generateId hands out at most MaxIds ids
MaxItems == 2
MaxLogs == 3
MaxIds == 4
\* SpecCreate: at most MaxCreate tasks are stored at a time
MaxCreate == 3
\* SpecAgg: at most MaxAggItems tasks and MaxAggLogs logs are stored, and
\* getDayAggregates is asked for 1..MaxDays days
MaxAggItems == 1
MaxAggLogs == 2
MaxDays == 3
\* SpecStats: at most MaxStatItems tasks and MaxStatLogs logs are stored
MaxStatItems == 2
MaxStatLogs == 3
\* SpecReads: at most MaxReadItems tasks and MaxReadLogs logs are stored
MaxReadItems == 2
MaxReadLogs == 2
\* SpecStatus: at most MaxStatusItems tasks are created and at most
\* MaxStatusLogs logs started
MaxStatusItems == 2
MaxStatusLogs == 1

(* Program constants *)

MsPerSec == 1000
MAX_TITLE_LENGTH == 200
MAX_DESCRIPTION_LENGTH == 2000
ANALYTICS_WINDOW_7_DAYS == 7
ANALYTICS_WINDOW_30_DAYS == 30
\* getDayAggregates(itemId ? 365 : ...) in getTimeStats
SCOPED_WINDOW_DAYS == 365

TickMs == MsPerSec \div 2
TicksPerSec == MsPerSec \div TickMs
DayTicks == 24 * 60 * 60 * TicksPerSec
HourTicks == 60 * 60 * TicksPerSec

Null == [null |-> TRUE]

----------------------------------------------------------------------------
(* JavaScript helpers *)

\* {...base, ...upd}
Merge(base, upd) ==
    [k \in (DOMAIN base) \cup (DOMAIN upd) |->
        IF k \in DOMAIN upd THEN upd[k] ELSE base[k]]

Has(obj, k) == k \in DOMAIN obj

\* Array.prototype.filter keeps the order: SelectSeq of Sequences

\* Array.prototype.map
Map(seq, F(_)) == [i \in 1..Len(seq) |-> F(seq[i])]

Range(seq) == {seq[i] : i \in 1..Len(seq)}

\* Math.max(...xs) of a non-empty set of numbers
Max(S) == CHOOSE x \in S : \A y \in S : y <= x

\* persist options: version
STORAGE_VERSION == 1

\* the bug of rounding down
MathRound_Floor(num, den) == num \div den

\* Math.round(num / den) for den > 0: the nearest integer, a half going up
\* (Math.round(-1.5) is -1); \div rounds down and % is never negative
MathRound(num, den) ==
    num \div den + (IF 2 * (num % den) >= den THEN 1 ELSE 0)

\* new Date(t).toISOString(): "YYYY-MM-DDTHH:mm:ss.sssZ", the UTC day and the
\* time in that day
ToISOString(t) == [date |-> t \div DayTicks, time |-> t % DayTicks]

\* parseISO(s).getTime()
ParseISO(s) == s.date * DayTicks + s.time

\* s.split('T')[0]
DatePart(s) == s.date

\* startOfDay(d): the local midnight at or before d
StartOfDay(t) == t - ((t + tz) % DayTicks)

\* subDays(d, n) and setDate(getDate() + n), no daylight-saving change
AddDays(t, n) == t + n * DayTicks

\* the local calendar day an instant lies in
LocalDay(t) == (t + tz) \div DayTicks

----------------------------------------------------------------------------
(* Pure functions of the store module *)

GenerateId == idCount + 1

\* the bug of cutting the fraction off instead of rounding
calculateDuration_Truncated(startTime, endTime) ==
    (ParseISO(endTime) - ParseISO(startTime)) \div TicksPerSec

\* Math.round((end - start) / 1000), end and start in milliseconds: a tick is
\* TickMs of them, so the quotient is the difference in ticks / TicksPerSec
calculateDuration(startTime, endTime) ==
    MathRound(ParseISO(endTime) - ParseISO(startTime), TicksPerSec)

----------------------------------------------------------------------------
(* The state after construction *)

\* what persist writes after every set(): the state without its functions,
\* and the version of the options
PersistedState ==
    [state |-> [items |-> items, timeLogs |-> timeLogs,
                inlineEditMetadata |-> inlineEditMetadata],
     version |-> STORAGE_VERSION]

\* the store created over an empty storage; persist writes the state once it
\* has hydrated
InitStore ==
    /\ items = <<>>
    /\ timeLogs = <<>>
    /\ inlineEditMetadata = Null
    /\ storage = PersistedState
    /\ idCount = 0
    /\ calls = 0
    /\ last = [op |-> "init"]

\* what a call records about itself: the state it found
Pre(op, args) ==
    Merge([op |-> op, items |-> items, timeLogs |-> timeLogs,
           inlineEditMetadata |-> inlineEditMetadata, now |-> now], args)

----------------------------------------------------------------------------
(* Queries *)


IsActive(log) == ~Has(log, "endTime")          \* !log.endTime

NoDuration(log) ==                              \* !log.duration
    \/ ~Has(log, "duration")
    \/ log.duration = 0

\* Array.prototype.find: the first match, or Null (undefined)
Find(seq, Test(_)) ==
    LET found == SelectSeq(seq, Test)
    IN IF found = <<>> THEN Null ELSE Head(found)

getItem(id) == Find(items, LAMBDA item : item.id = id)

ActiveTimeLogIn(logs, plannerId) ==
    Find(logs, LAMBDA log : log.plannerId = plannerId /\ IsActive(log))

getActiveTimeLog(plannerId) == ActiveTimeLogIn(timeLogs, plannerId)

PlannerIdsIn(logs) == {logs[i].plannerId : i \in 1..Len(logs)}

\* logs.sort((a, b) => parseISO(b.startTime) - parseISO(a.startTime)): by start
\* time, latest first; the sort is stable
RECURSIVE SortByStartDesc(_)
SortByStartDesc(logs) ==
    IF logs = <<>> THEN <<>>
    ELSE LET n == Len(logs)
             x == logs[n]
             front == SortByStartDesc(SubSeq(logs, 1, n - 1))
             \* x goes behind every log that starts at or after it
             k == Cardinality({i \in 1..Len(front) :
                      ParseISO(front[i].startTime) >= ParseISO(x.startTime)})
         IN SubSeq(front, 1, k) \o <<x>> \o SubSeq(front, k + 1, Len(front))

TimeLogsByItemIn(logs, plannerId) ==
    SortByStartDesc(SelectSeq(logs, LAMBDA log : log.plannerId = plannerId))

getTimeLogsByItem(plannerId) == TimeLogsByItemIn(timeLogs, plannerId)

getAllTimeLogs == timeLogs

\* items.sort((a, b) => a.order - b.order): by order, smallest first; the sort
\* is stable
RECURSIVE SortByOrder(_)
SortByOrder(its) ==
    IF its = <<>> THEN <<>>
    ELSE LET n == Len(its)
             x == its[n]
             front == SortByOrder(SubSeq(its, 1, n - 1))
             \* x goes behind every task whose order is at most its own
             k == Cardinality({i \in 1..Len(front) : front[i].order <= x.order})
         IN SubSeq(front, 1, k) \o <<x>> \o SubSeq(front, k + 1, Len(front))

\* the bug of returning the tasks in the order they are stored in
ItemsByCategoryIn_Unsorted(its, category) ==
    SelectSeq(its, LAMBDA item :
        item.category = category /\ item.status # "archived")

\* the bug of listing the archived tasks too
ItemsByCategoryIn_WithArchived(its, category) ==
    SortByOrder(SelectSeq(its, LAMBDA item : item.category = category))

ItemsByCategoryIn(its, category) ==
    SortByOrder(SelectSeq(its, LAMBDA item :
                    item.category = category /\ item.status # "archived"))

getItemsByCategory(category) == ItemsByCategoryIn(items, category)

getAllItems == SelectSeq(items, LAMBDA item : item.status # "archived")

----------------------------------------------------------------------------
(* Aggregation *)

\* getDatesBetween(startDate, endDate): the date strings of startDate,
\* startDate + 1 day, ... while that is <= endDate; the loop runs once for
\* every whole day that fits between the two, and once more
getDatesBetween(startDate, endDate) ==
    LET rounds == IF startDate <= endDate
                  THEN (endDate - startDate) \div DayTicks + 1
                  ELSE 0
    IN [i \in 1..rounds |-> DatePart(ToISOString(AddDays(startDate, i - 1)))]

EmptyAggregate(date) ==
    [date |-> date, totalDuration |-> 0, itemCount |-> 0, logs |-> <<>>]

\* logs.forEach of getDayAggregates: the map after the first n logs
RECURSIVE AggregateMap(_, _, _)
AggregateMap(logs, dates, n) ==
    IF n = 0 THEN [d \in Range(dates) |-> EmptyAggregate(d)]
    ELSE LET map == AggregateMap(logs, dates, n - 1)
             log == logs[n]
             logDateStr == DatePart(log.startTime)
         IN IF NoDuration(log) \/ logDateStr \notin DOMAIN map THEN map
            ELSE LET old == map[logDateStr]
                     pushed == Append(old.logs, log)
                 IN [map EXCEPT ![logDateStr] =
                        [date |-> old.date,
                         totalDuration |-> old.totalDuration + log.duration,
                         itemCount |-> Cardinality({pushed[i].plannerId :
                                                      i \in 1..Len(pushed)}),
                         logs |-> pushed]]

\* Object.values(map): the values in the order their keys were inserted, which
\* is the order of `dates` (its date strings are one day apart, so distinct)
ObjectValues(map, dates) == [i \in 1..Len(dates) |-> map[dates[i]]]

\* values.sort((a, b) => a.date.localeCompare(b.date))
SortedByDate(values) == SortSeq(values, LAMBDA a, b : a.date < b.date)

DayAggregatesOf(logs, days, t) ==
    LET startDate == AddDays(StartOfDay(t), -(days - 1))
        dates == getDatesBetween(startDate, t)
    IN SortedByDate(ObjectValues(AggregateMap(logs, dates, Len(logs)), dates))

getDayAggregates(days) == DayAggregatesOf(timeLogs, days, now)

\* the bug of counting a log on the day it ended
CountsSince_ByEnd(log, since) == ParseISO(log.endTime) >= since

\* logDate >= today (last7Days, last30Days)
CountsSince(log, since) == ParseISO(log.startTime) >= since

\* logs.forEach of getTimeStats: the durations of the logs that started at or
\* after `since`
RECURSIVE SumDurations(_, _)
SumDurations(logs, since) ==
    IF logs = <<>> THEN 0
    ELSE LET n == Len(logs)
             log == logs[n]
             sum == SumDurations(SubSeq(logs, 1, n - 1), since)
         IN IF NoDuration(log) THEN sum
            ELSE IF CountsSince(log, since) THEN sum + log.duration
            ELSE sum

\* byItem of getTimeStats
ByItem(logs) ==
    LET counted == SelectSeq(logs, LAMBDA log : ~NoDuration(log))
    IN [id \in PlannerIdsIn(counted) |->
           SumDurations(SelectSeq(counted, LAMBDA log : log.plannerId = id), 0)]

\* getTimeStats(itemId?): `given` is the tuple of the arguments of the call,
\* <<>> or <<itemId>>; an id is a non-empty string, so `itemId ?` asks whether
\* the argument was given
TimeStatsOf(allLogs, given, t) ==
    LET logs == IF given # <<>> THEN TimeLogsByItemIn(allLogs, given[1])
                ELSE allLogs
        today == StartOfDay(t)
        last7Days == AddDays(today, -ANALYTICS_WINDOW_7_DAYS)
        last30Days == AddDays(today, -ANALYTICS_WINDOW_30_DAYS)
        last7DaysDuration == SumDurations(logs, last7Days)
        last30DaysDuration == SumDurations(logs, last30Days)
    IN [today |-> SumDurations(logs, today),
        last7Days |-> last7DaysDuration,
        last30Days |-> last30DaysDuration,
        averagePerDay7 |-> MathRound(last7DaysDuration, ANALYTICS_WINDOW_7_DAYS),
        averagePerDay30 |-> MathRound(last30DaysDuration, ANALYTICS_WINDOW_30_DAYS),
        byDate |-> DayAggregatesOf(allLogs,
                       IF given # <<>> THEN SCOPED_WINDOW_DAYS
                       ELSE ANALYTICS_WINDOW_30_DAYS, t),
        byItem |-> ByItem(logs)]

getTimeStats(given) == TimeStatsOf(timeLogs, given, now)

----------------------------------------------------------------------------
(* What the set(...) calls of the handlers compute *)

\* the bug of leaving the archived tasks out of the maximum
NewOrder_NotArchived(its, category) ==
    LET categoryItems == SelectSeq(its, LAMBDA item :
                             item.category = category /\ item.status # "archived")
        maxOrder == IF Len(categoryItems) > 0
                    THEN Max({categoryItems[i].order : i \in 1..Len(categoryItems)})
                    ELSE -1
    IN maxOrder + 1

\* createItem: the order of a new task of `category`
NewOrder(its, category) ==
    LET categoryItems == SelectSeq(its, LAMBDA item : item.category = category)
        maxOrder == IF Len(categoryItems) > 0
                    THEN Max({categoryItems[i].order : i \in 1..Len(categoryItems)})
                    ELSE -1
    IN maxOrder + 1

NewItem(its, itemData, id, t) ==
    Merge(itemData, [id |-> id,
                     createdAt |-> ToISOString(t),
                     updatedAt |-> ToISOString(t),
                     order |-> NewOrder(its, itemData.category)])

\* the bug of updating every task, whatever its id
ItemsAfterUpdate_All(its, id, updates, t) ==
    [i \in 1..Len(its) |->
        Merge(Merge(its[i], updates), [updatedAt |-> ToISOString(t)])]

\* the bug of leaving updatedAt as it was
ItemsAfterUpdate_NoStamp(its, id, updates, t) ==
    [i \in 1..Len(its) |->
        IF its[i].id = id THEN Merge(its[i], updates) ELSE its[i]]

\* updateItem
ItemsAfterUpdate(its, id, updates, t) ==
    [i \in 1..Len(its) |->
        IF its[i].id = id
        THEN Merge(Merge(its[i], updates), [updatedAt |-> ToISOString(t)])
        ELSE its[i]]

\* deleteItem
ItemsAfterDelete(its, id) == SelectSeq(its, LAMBDA item : item.id # id)

\* the bug of a cascade that spares the active log
LogsAfterDelete_KeepActive(logs, id) ==
    SelectSeq(logs, LAMBDA log : log.plannerId # id \/ IsActive(log))

LogsAfterDelete(logs, id) == SelectSeq(logs, LAMBDA log : log.plannerId # id)

\* the bug of clearing the archived tasks with the completed ones
ItemsAfterClear_AndArchived(its) ==
    SelectSeq(its, LAMBDA item : item.status \notin {"completed", "archived"})

\* clearCompleted
ItemsAfterClear(its) == SelectSeq(its, LAMBDA item : item.status # "completed")

\* the bug of clearing completedAt when the task is un-completed
ItemsAfterToggle_Clears(its, id, status, t) ==
    [i \in 1..Len(its) |->
        IF its[i].id = id
        THEN Merge([k \in (DOMAIN its[i]) \ {"completedAt"} |-> its[i][k]],
                   Merge([status |-> status, updatedAt |-> ToISOString(t)],
                         IF status = "completed"
                         THEN [completedAt |-> ToISOString(t)]
                         ELSE <<>>))
        ELSE its[i]]

\* toggleStatus; completedAt: item.completedAt leaves the field as it was
ItemsAfterToggle(its, id, status, t) ==
    [i \in 1..Len(its) |->
        IF its[i].id = id
        THEN Merge(its[i],
                   Merge([status |-> status, updatedAt |-> ToISOString(t)],
                         IF status = "completed"
                         THEN [completedAt |-> ToISOString(t)]
                         ELSE <<>>))
        ELSE its[i]]

\* the bug of ending every active log, not the one named
LogsAfterEnd_Every(logs, logId, t) ==
    [i \in 1..Len(logs) |->
        IF IsActive(logs[i])
        THEN Merge(logs[i],
                   [endTime |-> ToISOString(t),
                    duration |-> calculateDuration(logs[i].startTime, ToISOString(t)),
                    updatedAt |-> ToISOString(t)])
        ELSE logs[i]]

\* the bug of ending a log again that has ended
LogsAfterEnd_Again(logs, logId, t) ==
    [i \in 1..Len(logs) |->
        IF logs[i].id = logId
        THEN Merge(logs[i],
                   [endTime |-> ToISOString(t),
                    duration |-> calculateDuration(logs[i].startTime, ToISOString(t)),
                    updatedAt |-> ToISOString(t)])
        ELSE logs[i]]

\* endTimeLog
LogsAfterEnd(logs, logId, t) ==
    [i \in 1..Len(logs) |->
        IF logs[i].id = logId /\ IsActive(logs[i])
        THEN Merge(logs[i],
                   [endTime |-> ToISOString(t),
                    duration |-> calculateDuration(logs[i].startTime, ToISOString(t)),
                    updatedAt |-> ToISOString(t)])
        ELSE logs[i]]

\* the bug of dropping the notes
NewLog_NoNotes(plannerId, notes, id, t) ==
    [id |-> id,
     plannerId |-> plannerId,
     startTime |-> ToISOString(t),
     createdAt |-> ToISOString(t),
     updatedAt |-> ToISOString(t)]

\* startTimeLog: the log it opens; `notes` is <<>> (no notes) or [notes |-> n]
NewLog(plannerId, notes, id, t) ==
    Merge([id |-> id,
           plannerId |-> plannerId,
           startTime |-> ToISOString(t),
           createdAt |-> ToISOString(t),
           updatedAt |-> ToISOString(t)], notes)

\* the bug of opening a log without closing the active one
LogsAfterStart_NoClose(logs, plannerId, notes, id, t) ==
    Append(logs, NewLog(plannerId, notes, id, t))

\* startTimeLog: the logs after it closed the active log and appended its own
LogsAfterStart(logs, plannerId, notes, id, t) ==
    LET existingActiveLog == ActiveTimeLogIn(logs, plannerId)
        closed == IF existingActiveLog # Null
                  THEN LogsAfterEnd(logs, existingActiveLog.id, t)
                  ELSE logs
    IN Append(closed, NewLog(plannerId, notes, id, t))

----------------------------------------------------------------------------
(* The handlers *)

createItem(itemData) ==
    /\ LET newItem == NewItem(items, itemData, GenerateId, now)
       IN /\ items' = Append(items, newItem)
          /\ last' = Pre("createItem", [itemData |-> itemData, ret |-> newItem])
    /\ idCount' = idCount + 1
    /\ UNCHANGED <<timeLogs, inlineEditMetadata, now, tz, timer, widgets, otherTab>>
    /\ storage' = PersistedState'

updateItem(id, updates) ==
    /\ items' = ItemsAfterUpdate(items, id, updates, now)
    /\ last' = Pre("updateItem", [id |-> id, updates |-> updates])
    /\ UNCHANGED <<timeLogs, inlineEditMetadata, now, tz, timer, widgets, otherTab, idCount>>
    /\ storage' = PersistedState'

deleteItem(id) ==
    /\ items' = ItemsAfterDelete(items, id)
    /\ timeLogs' = LogsAfterDelete(timeLogs, id)
    /\ last' = Pre("deleteItem", [id |-> id])
    /\ UNCHANGED <<inlineEditMetadata, now, tz, timer, widgets, otherTab, idCount>>
    /\ storage' = PersistedState'

toggleStatus(id, status) ==
    /\ items' = ItemsAfterToggle(items, id, status, now)
    /\ last' = Pre("toggleStatus", [id |-> id, status |-> status])
    /\ UNCHANGED <<timeLogs, inlineEditMetadata, now, tz, timer, widgets, otherTab, idCount>>
    /\ storage' = PersistedState'

startTimeLog(plannerId, notes) ==
    /\ timeLogs' = LogsAfterStart(timeLogs, plannerId, notes, GenerateId, now)
    /\ items' = ItemsAfterUpdate(items, plannerId, [status |-> "in-progress"], now)
    /\ last' = Pre("startTimeLog",
                   [plannerId |-> plannerId,
                    notes |-> notes,
                    ret |-> NewLog(plannerId, notes, GenerateId, now)])
    /\ idCount' = idCount + 1
    /\ UNCHANGED <<inlineEditMetadata, now, tz, timer, widgets, otherTab>>
    /\ storage' = PersistedState'

endTimeLog(logId) ==
    /\ timeLogs' = LogsAfterEnd(timeLogs, logId, now)
    /\ last' = Pre("endTimeLog", [logId |-> logId])
    /\ UNCHANGED <<items, inlineEditMetadata, now, tz, timer, widgets, otherTab, idCount>>
    /\ storage' = PersistedState'

clearCompleted ==
    /\ items' = ItemsAfterClear(items)
    /\ last' = Pre("clearCompleted", <<>>)
    /\ UNCHANGED <<timeLogs, inlineEditMetadata, now, tz, timer, widgets, otherTab, idCount>>
    /\ storage' = PersistedState'

archiveItem(id) ==
    /\ items' = ItemsAfterToggle(items, id, "archived", now)
    /\ last' = Pre("archiveItem", [id |-> id])
    /\ UNCHANGED <<timeLogs, inlineEditMetadata, now, tz, timer, widgets, otherTab, idCount>>
    /\ storage' = PersistedState'

\* updateSchedule(id, scheduledDate, dueDate): `given` holds the arguments that
\* are not undefined; a key set to undefined reads as a key that is not set
Without(obj, keys) == [k \in (DOMAIN obj) \ keys |-> obj[k]]

ItemsAfterSchedule(its, id, given, t) ==
    [i \in 1..Len(its) |->
        IF its[i].id = id
        THEN Merge(Merge(Without(its[i], {"scheduledDate", "dueDate"}), given),
                   [updatedAt |-> ToISOString(t)])
        ELSE its[i]]

updateSchedule(id, given) ==
    /\ items' = ItemsAfterSchedule(items, id, given, now)
    /\ last' = Pre("updateSchedule", [id |-> id, given |-> given])
    /\ UNCHANGED <<timeLogs, inlineEditMetadata, now, tz, timer, widgets, otherTab, idCount>>
    /\ storage' = PersistedState'

\* itemIds.indexOf(id): 0-based, -1 when absent
IndexOf(itemIds, id) ==
    IF \E i \in 1..Len(itemIds) : itemIds[i] = id
    THEN (CHOOSE i \in 1..Len(itemIds) :
            /\ itemIds[i] = id
            /\ \A j \in 1..(i - 1) : itemIds[j] # id) - 1
    ELSE -1

\* the bug of reordering the listed tasks of every category
ItemsAfterReorder_AnyCategory(its, category, itemIds, t) ==
    [i \in 1..Len(its) |->
        IF IndexOf(itemIds, its[i].id) # -1
        THEN Merge(its[i], [order |-> IndexOf(itemIds, its[i].id),
                            updatedAt |-> ToISOString(t)])
        ELSE its[i]]

ItemsAfterReorder(its, category, itemIds, t) ==
    [i \in 1..Len(its) |->
        IF its[i].category = category /\ IndexOf(itemIds, its[i].id) # -1
        THEN Merge(its[i], [order |-> IndexOf(itemIds, its[i].id),
                            updatedAt |-> ToISOString(t)])
        ELSE its[i]]

reorderItems(category, itemIds) ==
    /\ items' = ItemsAfterReorder(items, category, itemIds, now)
    /\ last' = Pre("reorderItems", [category |-> category, itemIds |-> itemIds])
    /\ UNCHANGED <<timeLogs, inlineEditMetadata, now, tz, timer, widgets, otherTab, idCount>>
    /\ storage' = PersistedState'

\* the bug of dropping the computed key
Field_None(field, value) == [k \in {} |-> value]

\* { [field]: value }
Field(field, value) == [k \in {field} |-> value]

startEdit(itemId, field, originalValue) ==
    /\ inlineEditMetadata' =
           [itemId |-> itemId, field |-> field, originalValue |-> originalValue]
    /\ items' = ItemsAfterUpdate(items, itemId, [isEditing |-> TRUE], now)
    /\ last' = Pre("startEdit", [itemId |-> itemId, field |-> field,
                                 originalValue |-> originalValue])
    /\ UNCHANGED <<timeLogs, now, tz, timer, widgets, otherTab, idCount>>
    /\ storage' = PersistedState'

cancelEdit ==
    /\ IF inlineEditMetadata # Null
       THEN /\ items' = ItemsAfterUpdate(items, inlineEditMetadata.itemId,
                            Merge([isEditing |-> FALSE],
                                  Field(inlineEditMetadata.field,
                                        inlineEditMetadata.originalValue)), now)
            /\ inlineEditMetadata' = Null
       ELSE UNCHANGED <<items, inlineEditMetadata>>
    /\ last' = Pre("cancelEdit", <<>>)
    /\ UNCHANGED <<timeLogs, now, tz, timer, widgets, otherTab, idCount>>
    /\ storage' = IF inlineEditMetadata # Null THEN PersistedState' ELSE storage

commitEdit(itemId, field, value) ==
    /\ items' = ItemsAfterUpdate(items, itemId,
                    Merge([isEditing |-> FALSE], Field(field, value)), now)
    /\ inlineEditMetadata' = Null
    /\ last' = Pre("commitEdit", [itemId |-> itemId, field |-> field,
                                  value |-> value])
    /\ UNCHANGED <<timeLogs, now, tz, timer, widgets, otherTab, idCount>>
    /\ storage' = PersistedState'

\* the bug of sorting the stored array itself
StoredAfterSort_InPlace(stored, sorted) == sorted

\* stored.filter(...).sort(...): filter returns a new array and sort orders
\* that array in place, so the stored array keeps the order it had
StoredAfterSort(stored, sorted) == stored

\* A call of a query: it returns `ret`
Read(op, args, ret) ==
    /\ last' = Pre(op, Merge(args, [ret |-> ret]))
    /\ UNCHANGED <<inlineEditMetadata, now, tz, timer, widgets, otherTab, idCount,
                   storage>>

readItem(id) ==
    /\ Read("getItem", [id |-> id], getItem(id))
    /\ UNCHANGED <<items, timeLogs>>

readItemsByCategory(category) ==
    /\ Read("getItemsByCategory", [category |-> category],
            getItemsByCategory(category))
    /\ items' = StoredAfterSort(items, SortByOrder(items))
    /\ UNCHANGED timeLogs

readAllItems ==
    /\ Read("getAllItems", <<>>, getAllItems)
    /\ UNCHANGED <<items, timeLogs>>

readActiveTimeLog(plannerId) ==
    /\ Read("getActiveTimeLog", [plannerId |-> plannerId],
            getActiveTimeLog(plannerId))
    /\ UNCHANGED <<items, timeLogs>>

readTimeLogsByItem(plannerId) ==
    /\ Read("getTimeLogsByItem", [plannerId |-> plannerId],
            getTimeLogsByItem(plannerId))
    /\ timeLogs' = StoredAfterSort(timeLogs, SortByStartDesc(timeLogs))
    /\ UNCHANGED items

readAllTimeLogs ==
    /\ Read("getAllTimeLogs", <<>>, getAllTimeLogs)
    /\ UNCHANGED <<items, timeLogs>>

\* getTimeStats sorts a copy too when it is given an id (getTimeLogsByItem)
readTimeStats(given) ==
    /\ Read("getTimeStats", [given |-> given], getTimeStats(given))
    /\ timeLogs' = IF given # <<>>
                   THEN StoredAfterSort(timeLogs, SortByStartDesc(timeLogs))
                   ELSE timeLogs
    /\ UNCHANGED items

readDayAggregates(days) ==
    /\ Read("getDayAggregates", [days |-> days], getDayAggregates(days))
    /\ UNCHANGED <<items, timeLogs>>

\* The wall clock is set to another instant of `instants`: time passes, or
\* the system clock is set back
advanceClock(instants) ==
    /\ \E t \in instants \ {now} : now' = t
    /\ UNCHANGED <<items, timeLogs, inlineEditMetadata, tz, timer, widgets, otherTab,
                   storage, idCount, calls, last>>

----------------------------------------------------------------------------
(* The store under every operation, at UTC, with a clock of half seconds *)

\* an instant long after the epoch: local midnights and windows stay positive
Epoch == 400 * DayTicks + 12 * HourTicks

\* the clock's instants: Epoch and 1.5 seconds after it
Instants == {Epoch, Epoch + 3}

Title(n, c) == [i \in 1..n |-> c]

ItemData(title, status, category) ==
    [title |-> title, status |-> status, priority |-> "medium",
     category |-> category]

ItemInputs == {ItemData(Title(1, "a"), "pending", c) : c \in {"today", "upcoming"}}

Statuses == {"pending", "in-progress", "completed", "archived"}

Updates == {[title |-> Title(1, "b")], [status |-> "completed"]}

\* the ids a caller can name: those of the stored tasks (of the stored logs),
\* and 0, which generateId never hands out
ItemIds == {items[i].id : i \in 1..Len(items)} \cup {0}

LogIds == {timeLogs[i].id : i \in 1..Len(timeLogs)} \cup {0}

IdLists == {<<>>} \cup {<<a>> : a \in ItemIds} \cup {<<a, b>> : a, b \in ItemIds}

Init ==
    /\ InitStore
    /\ timer = Null
    /\ widgets = <<>>
    /\ otherTab = Null
    /\ now = Epoch
    /\ tz = 0

\* one more call of a store operation
Call(op) ==
    /\ calls < MaxCalls
    /\ op
    /\ calls' = calls + 1

Next ==
    \/ \E d \in ItemInputs : Call(createItem(d))
    \/ \E id \in ItemIds, u \in Updates : Call(updateItem(id, u))
    \/ \E id \in ItemIds : Call(deleteItem(id))
    \/ \E id \in ItemIds, s \in Statuses : Call(toggleStatus(id, s))
    \/ \E id \in ItemIds : Call(updateSchedule(id, <<>>))
    \/ \E c \in {"today"}, l \in IdLists : Call(reorderItems(c, l))
    \/ \E id \in ItemIds, v \in {Title(1, "a")} : Call(startEdit(id, "title", v))
    \/ Call(cancelEdit)
    \/ \E id \in ItemIds, v \in {Title(1, "b")} : Call(commitEdit(id, "title", v))
    \/ \E id \in ItemIds : Call(startTimeLog(id, <<>>))
    \/ \E id \in LogIds : Call(endTimeLog(id))
    \/ Call(clearCompleted)
    \/ \E id \in ItemIds : Call(archiveItem(id))
    \/ advanceClock(Instants)

Spec == Init /\ [][Next]_vars

----------------------------------------------------------------------------
(* The life of the time logs: tasks are created and deleted, logs started  *)
(* and ended, and the clock moves between the calls, forwards or back.     *)

NextLogs ==
    \/ /\ Len(items) < MaxItems
       /\ idCount < MaxIds
       /\ createItem(ItemData(Title(1, "a"), "pending", "today"))
       /\ UNCHANGED calls
    \/ \E id \in ItemIds : deleteItem(id) /\ UNCHANGED calls
    \/ /\ Len(timeLogs) < MaxLogs
       /\ idCount < MaxIds
       /\ \E id \in ItemIds : startTimeLog(id, <<>>)
       /\ UNCHANGED calls
    \/ \E id \in LogIds : endTimeLog(id) /\ UNCHANGED calls
    \/ advanceClock(Instants)

SpecLogs == Init /\ [][NextLogs]_vars

----------------------------------------------------------------------------
(* Properties of the time logs *)

LogsOf(logs, plannerId) == SelectSeq(logs, LAMBDA log : log.plannerId = plannerId)

ActiveLogsOf(logs, plannerId) ==
    SelectSeq(logs, LAMBDA log : log.plannerId = plannerId /\ IsActive(log))

PlannerIdsOf(logs) == {logs[i].plannerId : i \in 1..Len(logs)}

\* C1: in every reachable state, whatever operations led to it, each task id
\* has at most one time log without an endTime.
C1_AtMostOneActiveLog ==
    \A id \in PlannerIdsOf(timeLogs) : Len(ActiveLogsOf(timeLogs, id)) <= 1

\* a startTimeLog found the task's log active, closed it and opened another
C1_Witness ==
    /\ last.op = "startTimeLog"
    /\ getItem(last.plannerId) # Null
    /\ Len(ActiveLogsOf(last.timeLogs, last.plannerId)) = 1
    /\ Len(LogsOf(timeLogs, last.plannerId)) >= 2
    /\ Len(ActiveLogsOf(timeLogs, last.plannerId)) = 1

\* C2: startTimeLog(t) on a task with an active log L ends L at the current
\* time (endTime and duration set), leaves every other stored log as it was and
\* appends exactly one log, which has no endTime; when L was t's only log, t
\* then has exactly two logs, the first ended and the second active.
C2_StartEndsActiveLog ==
    (last.op = "startTimeLog" /\ ActiveLogsOf(last.timeLogs, last.plannerId) # <<>>)
    => LET before == last.timeLogs
           n == Len(before)
           L == Head(ActiveLogsOf(before, last.plannerId))
       IN /\ Len(timeLogs) = n + 1
          /\ \A i \in 1..n :
                IF before[i].id = L.id
                THEN /\ Has(timeLogs[i], "endTime")
                     /\ timeLogs[i].endTime = ToISOString(last.now)
                     /\ Has(timeLogs[i], "duration")
                     /\ timeLogs[i].id = L.id
                     /\ timeLogs[i].startTime = L.startTime
                ELSE timeLogs[i] = before[i]
          /\ timeLogs[n + 1].plannerId = last.plannerId
          /\ ~Has(timeLogs[n + 1], "endTime")
          /\ timeLogs[n + 1] = last.ret
          /\ Len(LogsOf(before, last.plannerId)) = 1
                => LET mine == LogsOf(timeLogs, last.plannerId)
                   IN /\ Len(mine) = 2
                      /\ mine[1].id = L.id /\ Has(mine[1], "endTime")
                      /\ ~Has(mine[2], "endTime")
                      /\ Len(getTimeLogsByItem(last.plannerId)) = 2

\* two startTimeLog calls in a row on a stored task, after time has passed
C2_Witness ==
    /\ last.op = "startTimeLog"
    /\ getItem(last.plannerId) # Null
    /\ Len(LogsOf(last.timeLogs, last.plannerId)) = 1
    /\ Len(ActiveLogsOf(last.timeLogs, last.plannerId)) = 1
    /\ ParseISO(last.timeLogs[1].startTime) < last.now
    /\ Len(LogsOf(timeLogs, last.plannerId)) = 2

LogById(logs, logId) == Find(logs, LAMBDA log : log.id = logId)

\* C3: endTimeLog on a log that already has an endTime changes nothing in the
\* store: the log keeps its endTime, duration and updatedAt, however far the
\* clock has moved since the first call.
C3_EndTimeLogIdempotent ==
    (/\ last.op = "endTimeLog"
     /\ LogById(last.timeLogs, last.logId) # Null
     /\ Has(LogById(last.timeLogs, last.logId), "endTime"))
    => /\ timeLogs = last.timeLogs
       /\ items = last.items
       /\ inlineEditMetadata = last.inlineEditMetadata

\* the second endTimeLog came at another instant than the first
C3_Witness ==
    /\ last.op = "endTimeLog"
    /\ LogById(last.timeLogs, last.logId) # Null
    /\ Has(LogById(last.timeLogs, last.logId), "endTime")
    /\ ParseISO(LogById(last.timeLogs, last.logId).endTime) # last.now
    /\ ParseISO(LogById(last.timeLogs, last.logId).startTime) # last.now

\* the milliseconds between a log's start and end
SpanMs(log) == (ParseISO(log.endTime) - ParseISO(log.startTime)) * TickMs

\* d is span / 1000 rounded to the nearest integer, a half going up
IsRounded(d, spanMs) ==
    /\ 2 * spanMs - MsPerSec < 2 * MsPerSec * d
    /\ 2 * MsPerSec * d <= 2 * spanMs + MsPerSec

C6_NoNegativeDuration ==
    \A i \in 1..Len(timeLogs) :
        Has(timeLogs[i], "duration") => timeLogs[i].duration >= 0

\* C7: deleteItem(id) removes the task and every log of it, ended or active;
\* afterwards getItem(id) is absent and getTimeLogsByItem(id) is empty, and the
\* other tasks and the logs of other tasks are what they were, in their order.
C7_DeleteCascades ==
    last.op = "deleteItem"
    => /\ getItem(last.id) = Null
       /\ getTimeLogsByItem(last.id) = <<>>
       /\ \A i \in 1..Len(timeLogs) : timeLogs[i].plannerId # last.id
       /\ items = SelectSeq(last.items, LAMBDA item : item.id # last.id)
       /\ timeLogs = SelectSeq(last.timeLogs, LAMBDA log : log.plannerId # last.id)

\* the deleted task had an active log, and another task has a log
C7_Witness ==
    /\ last.op = "deleteItem"
    /\ \E i \in 1..Len(last.items) : last.items[i].id = last.id
    /\ \E i \in 1..Len(last.timeLogs) :
          last.timeLogs[i].plannerId = last.id /\ IsActive(last.timeLogs[i])
    /\ Len(items) = 1
    /\ Len(timeLogs) = 1
    /\ timeLogs[1].plannerId = items[1].id

----------------------------------------------------------------------------
(* Creating tasks: titles and descriptions of every length class, in two   *)
(* categories, among tasks that are archived and deleted.                  *)

Categories == {"today", "upcoming", "habits"}

\* what createItem is given: a task of each of two categories, and a task with
\* an empty title, with a title and with a description one character too long
CreateInputs ==
    {ItemData(Title(1, "a"), "pending", c) : c \in {"today", "upcoming"}}
    \cup {ItemData(Title(0, "a"), "pending", "today"),
          ItemData(Title(MAX_TITLE_LENGTH + 1, "a"), "pending", "today"),
          Merge(ItemData(Title(MAX_TITLE_LENGTH, "a"), "pending", "today"),
                [description |-> Title(MAX_DESCRIPTION_LENGTH + 1, "d")])}

NextCreate ==
    \/ /\ Len(items) < MaxCreate
       /\ idCount < MaxIds
       /\ \E d \in CreateInputs : createItem(d)
       /\ UNCHANGED calls
    \/ \E id \in ItemIds : archiveItem(id) /\ UNCHANGED calls
    \/ \E id \in ItemIds : deleteItem(id) /\ UNCHANGED calls

SpecCreate == Init /\ [][NextCreate]_vars

\* the tasks of a category, archived ones too
InCategory(its, category) ==
    {i \in 1..Len(its) : its[i].category = category}

\* C8: createItem gives the new task the order 1 + the largest order among the
\* stored tasks of its category, archived ones included, and 0 when the
\* category has none, whatever the other categories hold; it returns the task
\* it appended.
C8_CreateOrder ==
    last.op = "createItem"
    => LET new == items[Len(items)]
           same == InCategory(last.items, new.category)
       IN /\ Len(items) = Len(last.items) + 1
          /\ new = last.ret
          /\ new.category = last.itemData.category
          /\ same = {} => new.order = 0
          /\ same # {} =>
                /\ \E i \in same : new.order = last.items[i].order + 1
                /\ \A i \in same : last.items[i].order < new.order

\* tasks created in the categories today, today, upcoming on an empty store
C8_Witness ==
    /\ last.op = "createItem"
    /\ idCount = 3
    /\ Len(items) = 3
    /\ <<items[1].category, items[2].category, items[3].category>>
          = <<"today", "today", "upcoming">>
    /\ <<items[1].order, items[2].order, items[3].order>> = <<0, 1, 0>>

ValidItemData(d) ==
    /\ Len(d.title) >= 1
    /\ Len(d.title) <= MAX_TITLE_LENGTH
    /\ Has(d, "description") => Len(d.description) <= MAX_DESCRIPTION_LENGTH

\* C9: createItem with an empty title, a title of more than MAX_TITLE_LENGTH
\* characters or a description of more than MAX_DESCRIPTION_LENGTH characters
\* leaves items and timeLogs as they were.
C9_CreateRejectsInvalid ==
    (last.op = "createItem" /\ ~ValidItemData(last.itemData))
    => /\ items = last.items
       /\ timeLogs = last.timeLogs

----------------------------------------------------------------------------
(* Aggregates: logs that start and end on either side of a midnight, in a  *)
(* time zone behind UTC, at UTC and ahead of UTC; the clock moves between  *)
(* the calls, forwards or back.                                            *)

\* a UTC midnight
Midnight == 401 * DayTicks

\* a minute before the midnight, 125 seconds later, and a day before that
AggInstants ==
    {Midnight - 60 * TicksPerSec,
     Midnight + 65 * TicksPerSec,
     Midnight + 65 * TicksPerSec - DayTicks}

\* local time minus UTC: New York, UTC, India
TzOffsets == {-5 * HourTicks, 0, 5 * HourTicks + HourTicks \div 2}

InitAgg ==
    /\ InitStore
    /\ timer = Null
    /\ widgets = <<>>
    /\ otherTab = Null
    /\ now \in AggInstants
    /\ tz \in TzOffsets

NextAgg ==
    \/ /\ Len(items) < MaxAggItems
       /\ createItem(ItemData(Title(1, "a"), "pending", "today"))
       /\ UNCHANGED calls
    \/ /\ Len(timeLogs) < MaxAggLogs
       /\ \E id \in ItemIds : startTimeLog(id, <<>>)
       /\ UNCHANGED calls
    \/ \E id \in LogIds : endTimeLog(id) /\ UNCHANGED calls
    \/ advanceClock(AggInstants)

SpecAgg == InitAgg /\ [][NextAgg]_vars

\* the sum of the durations of the logs at the indices S
RECURSIVE DurationSum(_, _)
DurationSum(logs, S) ==
    IF S = {} THEN 0
    ELSE LET i == CHOOSE j \in S : TRUE
         IN logs[i].duration + DurationSum(logs, S \ {i})

\* the log the last call, an endTimeLog, has ended
EndedByLast(i) ==
    /\ last.op = "endTimeLog"
    /\ timeLogs[i].id = last.logId
    /\ LogById(last.timeLogs, last.logId) # Null
    /\ IsActive(LogById(last.timeLogs, last.logId))

\* the other logs that count for today: ended, with a duration other than 0,
\* started at or after the local midnight before t
OthersToday(i, t) ==
    {j \in 1..Len(timeLogs) :
        /\ j # i
        /\ Has(timeLogs[j], "duration")
        /\ timeLogs[j].duration # 0
        /\ ParseISO(timeLogs[j].startTime) >= StartOfDay(t)}

\* C5 as stated: a log ended 125 seconds after its start has the duration 125
\* and getTimeStats().today is then at least 125.
C5_TodayAtLeast125 ==
    \A i \in 1..Len(timeLogs) :
        (EndedByLast(i) /\ now = last.now /\ SpanMs(timeLogs[i]) = 125 * MsPerSec)
        => /\ timeLogs[i].duration = 125
           /\ getTimeStats(<<>>).today >= 125

\* C5 as amended: a log that ends a whole number N >= 0 of seconds after its
\* start has the duration N; right after a log was ended 125 seconds after its
\* start, getTimeStats().today is 125 plus the durations of the other logs
\* started since the local midnight of that moment if the log started at or
\* after that midnight, and the durations of those other logs alone if it
\* started before it.
C5_DurationWholeSeconds ==
    \A i \in 1..Len(timeLogs) :
        /\ (Has(timeLogs[i], "endTime") /\ SpanMs(timeLogs[i]) >= 0
                /\ SpanMs(timeLogs[i]) % MsPerSec = 0)
              => timeLogs[i].duration * MsPerSec = SpanMs(timeLogs[i])
        /\ (EndedByLast(i) /\ now = last.now
                /\ SpanMs(timeLogs[i]) = 125 * MsPerSec)
              => /\ timeLogs[i].duration = 125
                 /\ getTimeStats(<<>>).today =
                       (IF ParseISO(timeLogs[i].startTime) >= StartOfDay(now)
                        THEN 125 ELSE 0)
                       + DurationSum(timeLogs, OthersToday(i, now))

\* a log of 125 seconds that began before the local midnight and ended after it
C5_Witness ==
    \E i \in 1..Len(timeLogs) :
        /\ EndedByLast(i)
        /\ now = last.now
        /\ SpanMs(timeLogs[i]) = 125 * MsPerSec
        /\ timeLogs[i].duration = 125
        /\ ParseISO(timeLogs[i].startTime) < StartOfDay(now)
        /\ getItem(timeLogs[i].plannerId) # Null

\* C10: getDayAggregates(N) returns N buckets of consecutive ascending days, the
\* last one the current local day; without ended logs every bucket is empty.
C10_DayAggregateWindow ==
    \A N \in 1..MaxDays :
        LET buckets == getDayAggregates(N)
        IN /\ Len(buckets) = N
           /\ \A i \in 1..Len(buckets) :
                 buckets[i].date = LocalDay(now) - (N - i)
           /\ (\A k \in 1..Len(timeLogs) : ~Has(timeLogs[k], "endTime"))
                 => \A i \in 1..Len(buckets) :
                       /\ buckets[i].totalDuration = 0
                       /\ buckets[i].itemCount = 0
                       /\ buckets[i].logs = <<>>

----------------------------------------------------------------------------
(* Statistics: two tasks, created first, and their logs over the last     *)
(* month.  The clock only moves forwards here, from 31 days ago to the     *)
(* present, at UTC and ahead of UTC.                                       *)

\* 31 days ago, 8 days ago, 6 days ago, 1.5 seconds ago and the present, each
\* at 12:00 UTC
StatInstants ==
    {Epoch - 31 * DayTicks,
     Epoch - 8 * DayTicks,
     Epoch - 6 * DayTicks,
     Epoch - 3,
     Epoch}

StatOffsets == {0, 5 * HourTicks + HourTicks \div 2}

InitStats ==
    /\ InitStore
    /\ timer = Null
    /\ widgets = <<>>
    /\ otherTab = Null
    /\ now = Epoch - 31 * DayTicks
    /\ tz \in StatOffsets

NextStats ==
    \/ /\ idCount < MaxStatItems
       /\ createItem(ItemData(Title(1, "a"), "pending", "today"))
       /\ UNCHANGED calls
    \/ /\ Len(timeLogs) < MaxStatLogs
       /\ \E id \in ItemIds \ {0} : startTimeLog(id, <<>>)
       /\ UNCHANGED calls
    \/ \E id \in LogIds \ {0} : endTimeLog(id) /\ UNCHANGED calls
    \/ advanceClock({t \in StatInstants : t > now})

SpecStats == InitStats /\ [][NextStats]_vars

\* the logs of a bucket list `log`
Lists(bucket, log) == \E j \in 1..Len(bucket.logs) : bucket.logs[j] = log

\* C11: a log ended with a positive duration that started in the current local
\* day is counted in the last bucket of getDayAggregates(N), for every N >= 1
\* and every offset between local time and UTC.
C11_TodayBucketCounts ==
    \A N \in 1..MaxDays : \A k \in 1..Len(timeLogs) :
        LET log == timeLogs[k]
            buckets == getDayAggregates(N)
        IN (/\ Has(log, "duration")
            /\ log.duration > 0
            /\ ParseISO(log.startTime) >= StartOfDay(now)
            /\ LocalDay(ParseISO(log.startTime)) = LocalDay(now))
           => /\ Len(buckets) = N
              /\ Lists(buckets[N], log)

\* C12: each bucket of getDayAggregates(N) lists exactly the logs that have a
\* duration and started on the bucket's day, its totalDuration is the sum of
\* their durations and its itemCount the number of distinct plannerIds among
\* them; a log outside the window and an active log are in no bucket.
C12_BucketContents ==
    \A N \in 1..MaxDays :
        LET buckets == getDayAggregates(N)
        IN \A i \in 1..Len(buckets) :
              LET mine == SelectSeq(timeLogs, LAMBDA log :
                              /\ Has(log, "duration")
                              /\ LocalDay(ParseISO(log.startTime)) = buckets[i].date)
              IN /\ buckets[i].logs = mine
                 /\ buckets[i].totalDuration = DurationSum(mine, 1..Len(mine))
                 /\ buckets[i].itemCount = Cardinality(PlannerIdsOf(mine))
                 /\ \A j \in 1..Len(buckets[i].logs) :
                       Has(buckets[i].logs[j], "endTime")

\* the local midnight that begins the local day of t
LocalMidnight(t) == LocalDay(t) * DayTicks - tz

\* the stored logs with a duration that started at or after `since`
StartedSince(since) ==
    {i \in 1..Len(timeLogs) :
        /\ Has(timeLogs[i], "duration")
        /\ ParseISO(timeLogs[i].startTime) >= since}

\* q is num / den rounded to the nearest integer, a half going up
RoundsTo(q, num, den) ==
    /\ 2 * den * q - den <= 2 * num
    /\ 2 * num < 2 * den * q + den

\* C13: getTimeStats() returns today = the sum of the durations of the logs that
\* started at or after local midnight today, last7Days and last30Days = the
\* sums over the logs that started at or after that midnight - 7 and - 30 days,
\* averagePerDay7 = round(last7Days / 7), averagePerDay30 = round(last30Days /
\* 30); logs without a duration contribute to none of them.
C13_TimeStatsWindows ==
    LET stats == getTimeStats(<<>>)
        today == LocalMidnight(now)
    IN /\ stats.today = DurationSum(timeLogs, StartedSince(today))
       /\ stats.last7Days =
             DurationSum(timeLogs, StartedSince(today - 7 * DayTicks))
       /\ stats.last30Days =
             DurationSum(timeLogs, StartedSince(today - 30 * DayTicks))
       /\ RoundsTo(stats.averagePerDay7, stats.last7Days, 7)
       /\ RoundsTo(stats.averagePerDay30, stats.last30Days, 30)

\* three ended logs: one began more than 30 days ago, one more than 7 days
\* ago, one since; the three sums differ and a thirtieth of last30Days is
\* rounded up
C13_Witness ==
    LET stats == getTimeStats(<<>>)
    IN /\ Len(timeLogs) = 3
       /\ \A i \in 1..3 : Has(timeLogs[i], "duration") /\ timeLogs[i].duration > 0
       /\ ParseISO(timeLogs[1].startTime) < LocalMidnight(now) - 30 * DayTicks
       /\ ParseISO(timeLogs[2].startTime) < LocalMidnight(now) - 7 * DayTicks
       /\ stats.today < stats.last7Days
       /\ stats.last7Days < stats.last30Days
       /\ stats.last30Days < DurationSum(timeLogs, 1..3)
       /\ 30 * stats.averagePerDay30 > stats.last30Days

\* the stored logs of a task that have a duration
EndedLogsOf(id) ==
    {i \in 1..Len(timeLogs) :
        timeLogs[i].plannerId = id /\ Has(timeLogs[i], "duration")}

\* C14: getTimeStats(taskId).byItem has no key other than taskId and
\* byItem[taskId] is the sum of the durations of that task's ended logs,
\* whatever logs other tasks have; getTimeStats().byItem has one entry per task
\* with a positive ended duration, equal to that task's sum.
C14_ByItemTotals ==
    /\ \A id \in PlannerIdsOf(timeLogs) :
          LET byItem == getTimeStats(<<id>>).byItem
              sum == DurationSum(timeLogs, EndedLogsOf(id))
          IN /\ DOMAIN byItem \subseteq {id}
             /\ IF id \in DOMAIN byItem THEN byItem[id] = sum ELSE sum = 0
    /\ LET byItem == getTimeStats(<<>>).byItem
       IN /\ DOMAIN byItem =
                {id \in PlannerIdsOf(timeLogs) :
                    \E i \in EndedLogsOf(id) : timeLogs[i].duration > 0}
          /\ \A id \in DOMAIN byItem :
                byItem[id] = DurationSum(timeLogs, EndedLogsOf(id))

\* C15: the series byDate of getTimeStats(taskId) is that task's history: every
\* log in a bucket has plannerId = taskId and a bucket's totalDuration counts
\* that task's logs only; the series spans 365 days when scoped to a task and
\* 30 days when not.
C15_ByDateScoped ==
    /\ Len(getTimeStats(<<>>).byDate) = ANALYTICS_WINDOW_30_DAYS
    /\ \A id \in PlannerIdsOf(timeLogs) :
          LET byDate == getTimeStats(<<id>>).byDate
          IN /\ Len(byDate) = 365
             /\ \A i \in 1..Len(byDate) :
                   /\ \A j \in 1..Len(byDate[i].logs) :
                         byDate[i].logs[j].plannerId = id
                   /\ byDate[i].totalDuration =
                         DurationSum(timeLogs,
                             {k \in EndedLogsOf(id) :
                                 Lists(byDate[i], timeLogs[k])})

----------------------------------------------------------------------------
(* Queries: every query and aggregation is called between the calls that   *)
(* create two tasks, reorder them and open an edit, and then start and end *)
(* logs.                                                                   *)

NextReads ==
    \/ /\ idCount < MaxReadItems
       /\ createItem(ItemData(Title(1, "a"), "pending", "today"))
       /\ UNCHANGED calls
    \/ /\ timeLogs = <<>>
       /\ \E a, b \in ItemIds \ {0} : a > b /\ reorderItems("today", <<a, b>>)
       /\ UNCHANGED calls
    \/ /\ inlineEditMetadata = Null
       /\ timeLogs = <<>>
       /\ \E id \in ItemIds \ {0} : startEdit(id, "title", Title(1, "a"))
       /\ UNCHANGED calls
    \/ /\ Len(timeLogs) < MaxReadLogs
       /\ \E id \in ItemIds \ {0} : startTimeLog(id, <<>>)
       /\ UNCHANGED calls
    \/ \E id \in LogIds \ {0} : endTimeLog(id) /\ UNCHANGED calls
    \/ advanceClock({t \in Instants : t > now})
    \/ \E id \in ItemIds : readItem(id) /\ UNCHANGED calls
    \/ \E c \in {"today", "habits"} : readItemsByCategory(c) /\ UNCHANGED calls
    \/ readAllItems /\ UNCHANGED calls
    \/ \E id \in ItemIds : readActiveTimeLog(id) /\ UNCHANGED calls
    \/ \E id \in ItemIds : readTimeLogsByItem(id) /\ UNCHANGED calls
    \/ readAllTimeLogs /\ UNCHANGED calls
    \/ \E g \in {<<>>} \cup {<<id>> : id \in ItemIds \ {0}} :
          readTimeStats(g) /\ UNCHANGED calls
    \/ \E days \in 1..MaxDays : readDayAggregates(days) /\ UNCHANGED calls

SpecReads == Init /\ [][NextReads]_vars

QueryOps ==
    {"getItem", "getItemsByCategory", "getAllItems", "getActiveTimeLog",
     "getTimeLogsByItem", "getAllTimeLogs", "getTimeStats", "getDayAggregates"}

\* what the query of the last call returns when it is called again now
SecondResult ==
    CASE last.op = "getItem" -> getItem(last.id)
      [] last.op = "getItemsByCategory" -> getItemsByCategory(last.category)
      [] last.op = "getAllItems" -> getAllItems
      [] last.op = "getActiveTimeLog" -> getActiveTimeLog(last.plannerId)
      [] last.op = "getTimeLogsByItem" -> getTimeLogsByItem(last.plannerId)
      [] last.op = "getAllTimeLogs" -> getAllTimeLogs
      [] last.op = "getTimeStats" -> getTimeStats(last.given)
      [] last.op = "getDayAggregates" -> getDayAggregates(last.days)

\* C16: a query or aggregation leaves items, timeLogs and inlineEditMetadata as
\* they were, the order of both collections included, and a second call with
\* no mutation and no clock change in between returns an equal result.
C16_QueriesLeaveState ==
    last.op \in QueryOps
    => /\ items = last.items
       /\ timeLogs = last.timeLogs
       /\ inlineEditMetadata = last.inlineEditMetadata
       /\ now = last.now => SecondResult = last.ret

\* getTimeLogsByItem returned two logs latest first, the reverse of the order
\* they are stored in, while an edit is pending
C16_Witness ==
    /\ last.op = "getTimeLogsByItem"
    /\ Len(last.ret) = 2
    /\ last.ret = <<timeLogs[2], timeLogs[1]>>
    /\ timeLogs[1] # timeLogs[2]
    /\ inlineEditMetadata # Null

----------------------------------------------------------------------------
(* Status: two tasks, created pending or completed, are toggled, updated,  *)
(* archived and cleared; one of them may have a time log.                  *)

StatusInputs ==
    {ItemData(Title(1, "a"), st, "today") : st \in {"pending", "completed"}}

\* startTimeLog without notes and with notes
NoteInputs == {<<>>, [notes |-> "n"]}

NextStatus ==
    \/ /\ idCount < MaxStatusItems
       /\ \E d \in StatusInputs : createItem(d)
       /\ UNCHANGED calls
    \/ \E id \in ItemIds, st \in Statuses : toggleStatus(id, st) /\ UNCHANGED calls
    \/ \E id \in ItemIds : archiveItem(id) /\ UNCHANGED calls
    \/ \E id \in ItemIds \ {0} :
          updateItem(id, [status |-> "completed"]) /\ UNCHANGED calls
    \/ \E id \in ItemIds \ {0} :
          commitEdit(id, "status", "completed") /\ UNCHANGED calls
    \/ clearCompleted /\ UNCHANGED calls
    \/ /\ Len(timeLogs) < MaxStatusLogs
       /\ \E id \in ItemIds \ {0}, n \in NoteInputs : startTimeLog(id, n)
       /\ UNCHANGED calls
    \/ advanceClock({t \in Instants : t > now})

SpecStatus == Init /\ [][NextStatus]_vars

\* the task `id` among `its`, or Null
ItemIn(its, id) == Find(its, LAMBDA item : item.id = id)

\* a list of tasks holds the task `id`
Holds(its, id) == \E i \in 1..Len(its) : its[i].id = id

\* C17: archiveItem(id) has the effect of toggleStatus(id, 'archived'):
\* afterwards the task is absent from getItemsByCategory(its category) and from
\* getAllItems, getItem(id) still returns it, and none of its time logs is
\* removed or changed.
C17_ArchiveHides ==
    last.op = "archiveItem"
    => /\ Len(items) = Len(last.items)
       /\ \A i \in 1..Len(items) :
             IF last.items[i].id = last.id
             THEN items[i] = Merge(last.items[i],
                                  [status |-> "archived",
                                   updatedAt |-> ToISOString(last.now)])
             ELSE items[i] = last.items[i]
       /\ timeLogs = last.timeLogs
       /\ Holds(last.items, last.id)
             => /\ getItem(last.id) # Null
                /\ getItem(last.id).status = "archived"
                /\ ~Holds(getItemsByCategory(getItem(last.id).category), last.id)
                /\ ~Holds(getAllItems, last.id)

\* a completed task with a time log was archived after the clock had moved,
\* and the other task is still listed
C17_Witness ==
    /\ last.op = "archiveItem"
    /\ Holds(last.items, last.id)
    /\ ItemIn(last.items, last.id).status = "completed"
    /\ Has(getItem(last.id), "completedAt")
    /\ getItem(last.id).completedAt # getItem(last.id).updatedAt
    /\ \E k \in 1..Len(timeLogs) : timeLogs[k].plannerId = last.id
    /\ Len(getAllItems) = 1

\* C18: clearCompleted() removes exactly the tasks whose status is completed
\* and keeps every other task as it was; it leaves timeLogs as it was, so the
\* logs of the removed tasks stay behind.
C18_ClearCompleted ==
    last.op = "clearCompleted"
    => /\ items = SelectSeq(last.items, LAMBDA item : item.status # "completed")
       /\ \A i \in 1..Len(items) : items[i].status # "completed"
       /\ timeLogs = last.timeLogs

\* a completed task with a time log was removed, its log is left without a
\* task, and an archived task was kept
C18_Witness ==
    /\ last.op = "clearCompleted"
    /\ Len(last.items) = 2
    /\ Len(items) = 1
    /\ items[1].status = "archived"
    /\ Len(timeLogs) = 1
    /\ ~Holds(items, timeLogs[1].plannerId)
    /\ Holds(last.items, timeLogs[1].plannerId)

\* C19: toggleStatus(id, s) sets the task's status to s and refreshes
\* updatedAt; it sets completedAt to the current time when s is completed and
\* leaves completedAt as it was for every other s; no other task is changed.
C19_ToggleStatus ==
    last.op = "toggleStatus"
    => /\ Len(items) = Len(last.items)
       /\ \A i \in 1..Len(items) :
             LET old == last.items[i]
                 new == items[i]
             IN IF old.id # last.id THEN new = old
                ELSE /\ new.status = last.status
                     /\ new.updatedAt = ToISOString(last.now)
                     /\ IF last.status = "completed"
                        THEN /\ Has(new, "completedAt")
                             /\ new.completedAt = ToISOString(last.now)
                        ELSE /\ Has(new, "completedAt") <=> Has(old, "completedAt")
                             /\ Has(old, "completedAt")
                                   => new.completedAt = old.completedAt
                     /\ \A k \in (DOMAIN old) \ {"status", "updatedAt", "completedAt"} :
                           Has(new, k) /\ new[k] = old[k]
                     /\ DOMAIN new \subseteq (DOMAIN old) \cup {"completedAt"}
       /\ timeLogs = last.timeLogs

\* a task completed at one instant was set back to pending at a later one and
\* keeps its completedAt, beside another task
C19_Witness ==
    /\ last.op = "toggleStatus"
    /\ last.status = "pending"
    /\ Len(items) = 2
    /\ Holds(last.items, last.id)
    /\ ItemIn(last.items, last.id).status = "completed"
    /\ Has(getItem(last.id), "completedAt")
    /\ ParseISO(getItem(last.id).completedAt) < last.now

\* C20: in every reachable state every task whose status is completed has a
\* completedAt, whichever operation (createItem with status completed,
\* updateItem, commitEdit, toggleStatus) gave it that status.
C20_CompletedHasCompletedAt ==
    \A i \in 1..Len(items) :
        items[i].status = "completed" => Has(items[i], "completedAt")

----------------------------------------------------------------------------
(* Calls with ids that nothing stored has *)

ItemOpsById ==
    {"updateItem", "updateSchedule", "toggleStatus", "archiveItem", "deleteItem"}

\* the store is as the last call found it
StoreUntouched ==
    /\ items = last.items
    /\ timeLogs = last.timeLogs
    /\ inlineEditMetadata = last.inlineEditMetadata

\* C21: updateItem, updateSchedule, toggleStatus, archiveItem, deleteItem with
\* an id no stored task has, and endTimeLog with an id no stored log has, leave
\* items and timeLogs as they were; getItem and getActiveTimeLog on an id no
\* stored task has return nothing.
C21_UnknownIdNoOp ==
    /\ (last.op \in ItemOpsById /\ ~Holds(last.items, last.id)) => StoreUntouched
    /\ (last.op = "endTimeLog" /\ LogById(last.timeLogs, last.logId) = Null)
          => StoreUntouched
    /\ \A id \in 0..MaxIds :
          ~Holds(items, id)
          => /\ getItem(id) = Null
             /\ getActiveTimeLog(id) = Null

\* C22: startTimeLog(taskId) with a taskId no stored task has adds no time
\* log, so every stored time log was created for a task stored at that moment.
C22_StartUnknownNoOp ==
    (last.op = "startTimeLog" /\ ~Holds(last.items, last.plannerId))
    => /\ timeLogs = last.timeLogs
       /\ items = last.items

\* C23: startTimeLog(taskId, notes) on a stored task returns and stores a new
\* log with plannerId = taskId, startTime = now, the given notes, no endTime
\* and no duration, and sets the task's status to in-progress whatever it was,
\* leaving the task's completedAt as it was.
C23_StartOpensLog ==
    (last.op = "startTimeLog" /\ Holds(last.items, last.plannerId))
    => LET new == timeLogs[Len(timeLogs)]
           old == ItemIn(last.items, last.plannerId)
           cur == getItem(last.plannerId)
       IN /\ Len(timeLogs) = Len(last.timeLogs) + 1
          /\ new = last.ret
          /\ new.plannerId = last.plannerId
          /\ new.startTime = ToISOString(last.now)
          /\ ~Has(new, "endTime")
          /\ ~Has(new, "duration")
          /\ IF DOMAIN last.notes = {}
             THEN ~Has(new, "notes")
             ELSE Has(new, "notes") /\ new.notes = last.notes.notes
          /\ \A k \in 1..Len(last.timeLogs) : timeLogs[k].id # new.id
          /\ cur # Null
          /\ cur.status = "in-progress"
          /\ Has(cur, "completedAt") <=> Has(old, "completedAt")
          /\ Has(old, "completedAt") => cur.completedAt = old.completedAt

\* a log with notes was started on a task completed at an earlier instant
C23_Witness ==
    /\ last.op = "startTimeLog"
    /\ Holds(last.items, last.plannerId)
    /\ ItemIn(last.items, last.plannerId).status = "completed"
    /\ Has(getItem(last.plannerId), "completedAt")
    /\ ParseISO(getItem(last.plannerId).completedAt) < last.now
    /\ Has(timeLogs[Len(timeLogs)], "notes")
    /\ getItem(last.plannerId).status = "in-progress"

----------------------------------------------------------------------------
(* Listing and reordering *)

\* the indices of the stored tasks that getItemsByCategory(c) is to list
Listed(c) ==
    {i \in 1..Len(items) : items[i].category = c /\ items[i].status # "archived"}

\* what createItem was given for a stored task: the task without the fields
\* that createItem adds
ItemDataOf(item) ==
    [k \in DOMAIN item \ {"id", "createdAt", "updatedAt", "order"} |-> item[k]]

\* only creates have happened: each stored task is what createItem made of
\* its input when the tasks before it were stored
CreatesOnly ==
    \A i \in 1..Len(items) :
        items[i] = NewItem(SubSeq(items, 1, i - 1), ItemDataOf(items[i]),
                           items[i].id, ParseISO(items[i].createdAt))

\* C24: getItemsByCategory(c) returns exactly the stored tasks whose category
\* is c and whose status is not archived, sorted by order ascending; after
\* creates only, this is the creation order within the category, whatever
\* creates in other categories came in between.
C24_ListByCategory ==
    \A c \in Categories :
        LET ret == getItemsByCategory(c)
        IN /\ Len(ret) = Cardinality(Listed(c))
           /\ \A i \in Listed(c) : \E j \in 1..Len(ret) : ret[j] = items[i]
           /\ \A j \in 1..Len(ret) : \E i \in Listed(c) : ret[j] = items[i]
           /\ \A j, k \in 1..Len(ret) : j < k => ret[j].order <= ret[k].order
           /\ CreatesOnly
                 => ret = SelectSeq(items, LAMBDA item :
                              item.category = c /\ item.status # "archived")

\* tasks created today, upcoming, today; the two of today were then put in
\* the reverse order, and are listed in it
C24_Witness ==
    /\ Len(items) = 3
    /\ <<items[1].category, items[2].category, items[3].category>>
          = <<"today", "upcoming", "today">>
    /\ getItemsByCategory("today") = <<items[3], items[1]>>
    /\ getItemsByCategory("upcoming") = <<items[2]>>

\* the ids of the tasks of category c among `its`
IdsOfCategory(its, c) ==
    {its[i].id : i \in {j \in 1..Len(its) : its[j].category = c}}

\* a list without duplicates
NoDuplicates(seq) == \A i, j \in 1..Len(seq) : seq[i] = seq[j] => i = j

\* C25: reorderItems(c, ids) sets the order of each task of category c whose
\* id occurs in ids to the index of its id in ids, and leaves as it was every
\* task of c not in ids and every task of another category, listed or not;
\* when ids is a duplicate-free list of all task ids of category c, the orders
\* in c afterwards are exactly 0..n-1, each once, and getItemsByCategory(c)
\* returns the non-archived tasks in the order of ids.
C25_Reorder ==
    last.op = "reorderItems"
    => LET c == last.category
           ids == last.itemIds
       IN /\ Len(items) = Len(last.items)
          /\ \A i \in 1..Len(items) :
                LET old == last.items[i]
                IN IF old.category = c /\ (\E k \in 1..Len(ids) : ids[k] = old.id)
                   THEN /\ items[i].id = old.id
                        /\ items[i].category = c
                        /\ ids[items[i].order + 1] = old.id
                        /\ \A k \in 1..items[i].order : ids[k] # old.id
                   ELSE items[i] = old
          /\ (NoDuplicates(ids) /\ Range(ids) = IdsOfCategory(last.items, c))
                => /\ {items[i].order : i \in {j \in 1..Len(items) :
                                                    items[j].category = c}}
                         = 0..(Len(ids) - 1)
                   /\ Cardinality({j \in 1..Len(items) : items[j].category = c})
                         = Len(ids)
                   /\ Map(getItemsByCategory(c), LAMBDA item : item.id)
                         = SelectSeq(ids, LAMBDA id :
                               getItem(id).status # "archived")

\* the two tasks of today were listed in reverse while a task of upcoming is
\* stored
C25_Witness ==
    /\ last.op = "reorderItems"
    /\ Len(items) = 3
    /\ Len(last.itemIds) = 2
    /\ NoDuplicates(last.itemIds)
    /\ Range(last.itemIds) = IdsOfCategory(last.items, last.category)
    /\ \E i \in 1..3 : items[i].category # last.category
    /\ \E i \in 1..3 : items[i].order # last.items[i].order

----------------------------------------------------------------------------
(* Inline edits: two tasks, edits of a title and of the two fields that
   updateItem and the edit operations write themselves *)

\* SpecEdit: at most MaxEditItems tasks are created
MaxEditItems == 2

EditFields == {"title", "isEditing", "updatedAt"}

\* the values an edit of a field is started and committed with
EditValues(field) ==
    CASE field = "title" -> {Title(1, "a"), Title(1, "b")}
      [] field = "isEditing" -> {TRUE}
      [] field = "updatedAt" -> {ToISOString(Epoch - 1)}

NextEdit ==
    \/ /\ idCount < MaxEditItems
       /\ createItem(ItemData(Title(1, "a"), "pending", "today"))
       /\ UNCHANGED calls
    \/ \E id \in ItemIds \ {0} :
          updateItem(id, [title |-> Title(1, "b")]) /\ UNCHANGED calls
    \/ \E id \in ItemIds \ {0}, f \in EditFields : \E v \in EditValues(f) :
          startEdit(id, f, v) /\ UNCHANGED calls
    \/ cancelEdit /\ UNCHANGED calls
    \/ \E id \in ItemIds \ {0}, f \in EditFields : \E v \in EditValues(f) :
          commitEdit(id, f, v) /\ UNCHANGED calls
    \/ advanceClock({t \in Instants : t > now})

SpecEdit == Init /\ [][NextEdit]_vars

\* an edit was pending when the last call was made
WasPending == last.inlineEditMetadata # Null

\* the fields that every update of a task by an edit operation writes
EditWrites == {"isEditing", "updatedAt"}

\* task i is as it was before the last call, but for the fields in `fields`
SameBut(i, fields) ==
    /\ DOMAIN items[i] \ fields = DOMAIN last.items[i] \ fields
    /\ \A k \in DOMAIN items[i] \ fields : items[i][k] = last.items[i][k]

\* C26: there is at most one pending-edit descriptor in the store:
\* startEdit(B, f2, v2) while an edit (A, f1, v1) is pending replaces the
\* descriptor by (B, f2, v2) and writes v1 back to no task (only B changes,
\* and only in isEditing and updatedAt); a later cancelEdit restores only the
\* field f2 of B, so that the field f1 of A keeps the value it had.
C26_SinglePendingEdit ==
    /\ \/ inlineEditMetadata = Null
       \/ DOMAIN inlineEditMetadata = {"itemId", "field", "originalValue"}
    /\ (last.op = "startEdit" /\ WasPending)
         => /\ inlineEditMetadata.itemId = last.itemId
            /\ inlineEditMetadata.field = last.field
            /\ inlineEditMetadata.originalValue = last.originalValue
            /\ Len(items) = Len(last.items)
            /\ \A i \in 1..Len(items) :
                  IF last.items[i].id = last.itemId
                  THEN SameBut(i, EditWrites)
                  ELSE items[i] = last.items[i]
    /\ (last.op = "cancelEdit" /\ WasPending)
         => /\ Len(items) = Len(last.items)
            /\ \A i \in 1..Len(items) :
                  IF last.items[i].id = last.inlineEditMetadata.itemId
                  THEN SameBut(i, EditWrites \cup {last.inlineEditMetadata.field})
                  ELSE items[i] = last.items[i]

\* the edit of the title of a task B was cancelled while another task A, whose
\* edit was abandoned when that of B started, is still marked as being edited
\* and holds a title that is not the one its edit started from
C26_Witness ==
    /\ last.op = "cancelEdit" /\ WasPending
    /\ last.inlineEditMetadata.field = "title"
    /\ inlineEditMetadata = Null
    /\ \E i, j \in 1..Len(items) :
          /\ items[i].id = last.inlineEditMetadata.itemId
          /\ items[j].id # last.inlineEditMetadata.itemId
          /\ items[i].title = last.inlineEditMetadata.originalValue
          /\ Has(items[j], "isEditing") /\ items[j].isEditing
          /\ items[j].title = Title(1, "b")
          /\ items[j] = last.items[j]

\* the task the pending edit of the last call was about, before and after
EditedTasks == {i \in 1..Len(last.items) :
                   last.items[i].id = last.inlineEditMetadata.itemId}

\* C27: cancelEdit() with a pending edit (item, field, original) sets the
\* field of that task back to original whatever updates were applied to it
\* since startEdit, for a field other than isEditing and updatedAt, sets its
\* isEditing to false (to original when the field is isEditing) and its
\* updatedAt to the time of the call, and clears the descriptor to null;
\* cancelEdit() with no pending edit changes nothing in the store.
C27_CancelRestores ==
    last.op = "cancelEdit"
    => IF WasPending
       THEN /\ inlineEditMetadata = Null
            /\ timeLogs = last.timeLogs
            /\ Len(items) = Len(last.items)
            /\ \A i \in EditedTasks :
                  LET m == last.inlineEditMetadata
                  IN /\ m.field \notin EditWrites
                          => items[i][m.field] = m.originalValue
                     /\ items[i].isEditing =
                          (IF m.field = "isEditing" THEN m.originalValue ELSE FALSE)
                     /\ items[i].updatedAt = ToISOString(last.now)
       ELSE /\ items = last.items
            /\ timeLogs = last.timeLogs
            /\ inlineEditMetadata = Null

\* C27 as it is stated: whatever the field, the task holds original in it and
\* false in isEditing after cancelEdit()
C27_CancelRestoresAnyField ==
    (last.op = "cancelEdit" /\ WasPending)
    => /\ inlineEditMetadata = Null
       /\ \A i \in EditedTasks :
             /\ items[i][last.inlineEditMetadata.field]
                   = last.inlineEditMetadata.originalValue
             /\ items[i].isEditing = FALSE

\* the edit of a title was cancelled after the title had been updated to
\* another one than the edit started from
C27_Witness ==
    /\ last.op = "cancelEdit" /\ WasPending
    /\ last.inlineEditMetadata.field = "title"
    /\ \E i \in EditedTasks :
          /\ last.items[i].title # last.inlineEditMetadata.originalValue
          /\ items[i].title = last.inlineEditMetadata.originalValue
          /\ last.items[i].isEditing /\ ~items[i].isEditing

\* the tasks the last call named
NamedTasks == {i \in 1..Len(last.items) : last.items[i].id = last.itemId}

\* C28: startEdit(item, field, v) sets the descriptor to {itemId: item, field,
\* originalValue: v} and the task's isEditing to true; commitEdit(item, field,
\* value) sets the task's field to value, for a field other than isEditing and
\* updatedAt, its isEditing to false (to value when the field is isEditing)
\* and its updatedAt to the time of the call, and clears the descriptor to
\* null.
C28_StartAndCommit ==
    /\ last.op = "startEdit"
         => /\ inlineEditMetadata.itemId = last.itemId
            /\ inlineEditMetadata.field = last.field
            /\ inlineEditMetadata.originalValue = last.originalValue
            /\ DOMAIN inlineEditMetadata = {"itemId", "field", "originalValue"}
            /\ \A i \in NamedTasks :
                  /\ items[i].isEditing = TRUE
                  /\ items[i].updatedAt = ToISOString(last.now)
    /\ last.op = "commitEdit"
         => /\ inlineEditMetadata = Null
            /\ \A i \in NamedTasks :
                  /\ last.field \notin EditWrites
                       => items[i][last.field] = last.value
                  /\ items[i].isEditing =
                       (IF last.field = "isEditing" THEN last.value ELSE FALSE)
                  /\ items[i].updatedAt = ToISOString(last.now)

\* C28 as it is stated: whatever the field, the task holds value in it and
\* false in isEditing after commitEdit
C28_CommitSetsAnyField ==
    last.op = "commitEdit"
    => /\ inlineEditMetadata = Null
       /\ \A i \in NamedTasks :
             /\ items[i][last.field] = last.value
             /\ items[i].isEditing = FALSE

\* the pending edit of a title was committed with another title than the
\* task had
C28_Witness ==
    /\ last.op = "commitEdit" /\ WasPending
    /\ last.inlineEditMetadata.itemId = last.itemId
    /\ last.field = "title"
    /\ \E i \in NamedTasks :
          /\ last.items[i].title # last.value
          /\ items[i].title = last.value
          /\ last.items[i].isEditing /\ ~items[i].isEditing

----------------------------------------------------------------------------
(* The life of a time log *)

\* the stored logs that have the id of `log`
StoredAs(log) == {k \in 1..Len(timeLogs) : timeLogs[k].id = log.id}

\* C29: once a time log has an endTime, no later store operation changes its
\* startTime, endTime or duration, and a time log leaves the collection only
\* through deleteItem of its owning task: no other operation, endTimeLog,
\* clearCompleted and archiveItem included, removes a log.
C29_EndedLogsStay ==
    last.op # "init"
    => \A i \in 1..Len(last.timeLogs) :
          LET old == last.timeLogs[i]
          IN IF last.op = "deleteItem" /\ old.plannerId = last.id
             THEN StoredAs(old) = {}
             ELSE /\ Cardinality(StoredAs(old)) = 1
                  /\ \A k \in StoredAs(old) :
                        /\ timeLogs[k].plannerId = old.plannerId
                        /\ timeLogs[k].startTime = old.startTime
                        /\ Has(old, "endTime")
                             => /\ Has(timeLogs[k], "endTime")
                                /\ timeLogs[k].endTime = old.endTime
                                /\ timeLogs[k].duration = old.duration

\* endTimeLog was called, later than its end, on a log that had ended
C29_Witness ==
    /\ last.op = "endTimeLog"
    /\ \E i \in 1..Len(last.timeLogs) :
          /\ last.timeLogs[i].id = last.logId
          /\ Has(last.timeLogs[i], "endTime")
          /\ ParseISO(last.timeLogs[i].endTime) < last.now
          /\ timeLogs[i] = last.timeLogs[i]

----------------------------------------------------------------------------
(* The useTimer hook.  The state of the hook and its refs are the fields of
   `timer`; the handlers a caller holds are those of the latest render, and
   the callback of the interval is the one that start() made, with the
   checkCompletion of the render in which start() was called. *)

\* SpecTimer: the clock runs for at most MaxTimerTicks ticks
MaxTimerTicks == 7

\* SpecTimer: no run is started once onComplete was called MaxCompletions times
MaxCompletions == 2

\* number | null: <<>> for null, <<n>> for the number n
NoNumber == <<>>

\* the state after useTimer(config) has rendered first; onComplete counts the
\* calls of config.onComplete
useTimer(config) ==
    [elapsedSeconds |-> 0,
     isRunning |-> FALSE,
     isPaused |-> FALSE,
     mode |-> config.mode,
     targetDuration |-> config.targetDuration,
     intervalRef |-> NoNumber,
     startTimeRef |-> NoNumber,
     accumulatedTimeRef |-> 0,
     onComplete |-> 0]

\* clearInterval(intervalRef.current); intervalRef.current = null
clearTimer(tm) == [tm EXCEPT !.intervalRef = <<>>]

\* the checkCompletion of a render: what it closed over
CheckCompletionOf(tm) == [mode |-> tm.mode, targetDuration |-> tm.targetDuration]

\* the checkCompletion that the callback of the live interval calls: the one
\* start() closed over
Closure(tm) == tm.intervalRef[1]

\* Math.floor(accumulatedTimeRef.current + (Date.now() - startTimeRef.current) / 1000)
CurrentElapsed(tm, t) ==
    tm.accumulatedTimeRef + (t - tm.startTimeRef[1]) \div TicksPerSec

\* checkCompletion(currentElapsed) of the closure cl returns true
Completes(cl, currentElapsed) ==
    /\ cl.mode = "countdown"
    /\ cl.targetDuration # NoNumber
    /\ currentElapsed >= cl.targetDuration[1]

\* start(), isRunning being false
TimerAfterStart(tm, t) ==
    [tm EXCEPT !.isRunning = TRUE,
               !.isPaused = FALSE,
               !.startTimeRef = <<t>>,
               !.accumulatedTimeRef = tm.elapsedSeconds,
               !.intervalRef = <<CheckCompletionOf(tm)>>]

\* the callback of the interval
TimerAfterTick(tm, t) ==
    IF tm.startTimeRef = NoNumber
    THEN tm
    ELSE IF Completes(Closure(tm), CurrentElapsed(tm, t))
         THEN [clearTimer(tm) EXCEPT
                   !.isRunning = FALSE,
                   !.isPaused = FALSE,
                   !.elapsedSeconds = Closure(tm).targetDuration[1],
                   !.onComplete = tm.onComplete + 1]
         ELSE [tm EXCEPT !.elapsedSeconds = CurrentElapsed(tm, t)]

\* the bug of a pause that leaves isRunning set
TimerAfterPause_StillRunning(tm) ==
    [clearTimer(tm) EXCEPT !.isPaused = TRUE,
                           !.accumulatedTimeRef = tm.elapsedSeconds,
                           !.startTimeRef = NoNumber]

\* pause(), isRunning being true
TimerAfterPause(tm) ==
    [clearTimer(tm) EXCEPT !.isRunning = FALSE,
                           !.isPaused = TRUE,
                           !.accumulatedTimeRef = tm.elapsedSeconds,
                           !.startTimeRef = NoNumber]

\* reset()
TimerAfterReset(tm) ==
    [clearTimer(tm) EXCEPT !.elapsedSeconds = 0,
                           !.isRunning = FALSE,
                           !.isPaused = FALSE,
                           !.accumulatedTimeRef = 0,
                           !.startTimeRef = NoNumber]

\* a call of the hook, or a run of the callback of its interval
Hook(op, args, after) ==
    /\ timer # Null
    /\ timer' = after
    /\ last' = Pre(op, Merge(args, [timer |-> timer]))
    /\ UNCHANGED <<items, timeLogs, inlineEditMetadata, now, tz, idCount, calls,
                   widgets, storage, otherTab>>

start ==
    Hook("start", <<>>,
         IF timer.isRunning THEN timer ELSE TimerAfterStart(timer, now))

tick ==
    /\ timer # Null
    /\ timer.intervalRef # NoNumber
    /\ Hook("tick", <<>>, TimerAfterTick(timer, now))

pause ==
    Hook("pause", <<>>,
         IF ~timer.isRunning \/ timer.isPaused THEN timer ELSE TimerAfterPause(timer))

resume ==
    Hook("resume", <<>>,
         IF timer.isRunning \/ ~timer.isPaused THEN timer
         ELSE TimerAfterStart(timer, now))

reset == Hook("reset", <<>>, TimerAfterReset(timer))

setMode(mode) ==
    Hook("setMode", [mode |-> mode], [timer EXCEPT !.mode = mode])

setTargetDuration(seconds) ==
    Hook("setTargetDuration", [seconds |-> seconds],
         [timer EXCEPT !.targetDuration = <<seconds>>])

TimerModes == {"stopwatch", "countdown"}

\* the target durations, in seconds, that the hook is given
TimerTargets == {1, 2}

TimerConfigs ==
    {[mode |-> m, targetDuration |-> d] :
        m \in TimerModes, d \in {NoNumber} \cup {<<n>> : n \in TimerTargets}}

TimerInstants == {Epoch + k : k \in 0..MaxTimerTicks}

InitTimer ==
    /\ InitStore
    /\ now = Epoch
    /\ tz = 0
    /\ timer \in {useTimer(config) : config \in TimerConfigs}
    /\ widgets = <<>>
    /\ otherTab = Null

NextTimer ==
    \/ timer.onComplete < MaxCompletions /\ start
    \/ tick
    \/ pause
    \/ resume
    \/ reset
    \/ \E m \in TimerModes : setMode(m)
    \/ \E n \in TimerTargets : setTargetDuration(n)
    \/ advanceClock({t \in TimerInstants : t > now})

SpecTimer == InitTimer /\ [][NextTimer]_vars

HookOps == {"start", "tick", "pause", "resume", "reset", "setMode",
            "setTargetDuration"}

\* C30: in countdown mode with a target duration, the first tick at which the
\* computed elapsed time is at least the target stops the timer (isRunning
\* false, isPaused false, no further ticks), sets elapsedSeconds to exactly
\* the target and invokes onComplete exactly once for that run; in stopwatch
\* mode onComplete is never invoked.
C30_CountdownCompletes ==
    last.op \in HookOps
    => LET pre == last.timer
       IN /\ last.op # "tick" => timer.onComplete = pre.onComplete
          /\ (last.op = "tick" /\ pre.mode = "stopwatch")
               => timer.onComplete = pre.onComplete
          /\ (/\ last.op = "tick"
              /\ pre.mode = "countdown"
              /\ pre.targetDuration # NoNumber)
               => IF CurrentElapsed(pre, last.now) >= pre.targetDuration[1]
                  THEN /\ ~timer.isRunning
                       /\ ~timer.isPaused
                       /\ timer.intervalRef = NoNumber
                       /\ timer.elapsedSeconds = pre.targetDuration[1]
                       /\ timer.onComplete = pre.onComplete + 1
                  ELSE timer.onComplete = pre.onComplete

\* C31: between a start and the next reset, the elapsedSeconds that useTimer
\* publishes never decreases from one update to the next, across any sequence
\* of ticks, pauses and resumes, and the time that passes while the timer is
\* paused is not added to it.
C31_ElapsedNeverDecreases ==
    (last.op \in HookOps \ {"reset"})
    => /\ timer.elapsedSeconds >= last.timer.elapsedSeconds
       /\ (last.op \in {"pause", "resume"})
            => timer.elapsedSeconds = last.timer.elapsedSeconds
       /\ (last.op = "resume" /\ timer.isRunning /\ ~last.timer.isRunning)
            => /\ timer.accumulatedTimeRef = last.timer.elapsedSeconds
               /\ timer.startTimeRef = <<last.now>>

----------------------------------------------------------------------------
(* TimerWidget: a useTimer hook and the log that the widget opened.  A widget
   is [plannerId, activeLogId, notes, timer, captured, handed]: its prop, its
   state, its hook, the render whose onComplete (handleStop) the live interval
   closed over, and the values it handed to onTimeLogComplete. *)

\* SpecWidget: the clock runs for at most MaxWidgetTicks ticks
MaxWidgetTicks == 4
\* SpecWidget: at most MaxWidgetLogs logs are stored
MaxWidgetLogs == 2

WidgetNames == {"A", "B"}

\* parseInt(targetInput) * 60 || 25 * 60 with the initial targetInput '25'
DefaultTarget == 1500

\* minutes * 60
SecondsPerMinute == 60

\* what handleStop and handleReset of a render read
RenderOf(w) == [activeLogId |-> w.activeLogId,
                elapsedSeconds |-> w.timer.elapsedSeconds]

\* the widget after its first render and its mount effect
MountedWidget(plannerId, config) ==
    LET existingLog == getActiveTimeLog(plannerId)
        hook == useTimer(config)
    IN [plannerId |-> plannerId,
        activeLogId |-> IF existingLog # Null THEN <<existingLog.id>> ELSE NoNumber,
        notes |-> "",
        timer |-> IF existingLog # Null
                  THEN [TimerAfterReset(hook) EXCEPT !.mode = "stopwatch"]
                  ELSE hook,
        captured |-> Null,
        handed |-> <<>>]

\* timer.start() of a render: the hook, and the render that the new interval
\* closes over (w has the state updates the handler made before the call)
WidgetAfterStart(w, render, t) ==
    IF w.timer.isRunning THEN w
    ELSE [w EXCEPT !.timer = TimerAfterStart(w.timer, t),
                   !.captured = render]

\* a step of a widget: the store and the widget after it
WidgetStep(op, name, newItems, newLogs, newWidget) ==
    /\ items' = newItems
    /\ timeLogs' = newLogs
    /\ widgets' = [widgets EXCEPT ![name] = newWidget]
    /\ last' = Pre(op, [name |-> name, widgets |-> widgets])
    /\ UNCHANGED <<inlineEditMetadata, now, tz, timer, otherTab, calls>>
    /\ storage' = IF newItems = items /\ newLogs = timeLogs THEN storage
                  ELSE PersistedState'

mount(name, plannerId, config) ==
    /\ name \notin DOMAIN widgets
    /\ widgets' = Merge(widgets, [n \in {name} |-> MountedWidget(plannerId, config)])
    /\ last' = Pre("mount", [name |-> name, widgets |-> widgets])
    /\ UNCHANGED <<items, timeLogs, inlineEditMetadata, now, tz, timer, otherTab,
                   calls, idCount, storage>>

\* the Start button: shown while the timer neither runs nor is paused
handleStart(name) ==
    LET w == widgets[name]
        given == [notes |-> w.notes]
        log == NewLog(w.plannerId, given, GenerateId, now)
        started == ItemsAfterUpdate(items, w.plannerId, [status |-> "in-progress"], now)
    IN /\ ~w.timer.isRunning /\ ~w.timer.isPaused
       /\ WidgetStep("handleStart", name,
              IF w.notes # ""
              THEN ItemsAfterUpdate(started, w.plannerId, [description |-> w.notes], now)
              ELSE started,
              LogsAfterStart(timeLogs, w.plannerId, given, GenerateId, now),
              WidgetAfterStart([w EXCEPT !.activeLogId = <<log.id>>], RenderOf(w), now))
       /\ idCount' = idCount + 1

\* the Pause button: shown while the timer runs
handlePause(name) ==
    LET w == widgets[name]
    IN /\ w.timer.isRunning
       /\ WidgetStep("handlePause", name, items, timeLogs,
              IF w.timer.isPaused THEN w
              ELSE [w EXCEPT !.timer = TimerAfterPause(w.timer)])
       /\ UNCHANGED idCount

\* the Resume button: shown while the timer is paused
handleResume(name) ==
    LET w == widgets[name]
    IN /\ ~w.timer.isRunning /\ w.timer.isPaused
       /\ WidgetStep("handleResume", name, items, timeLogs,
              WidgetAfterStart(w, RenderOf(w), now))
       /\ UNCHANGED idCount

\* handleStop and handleReset of the render r: endTimeLog of its activeLogId
LogsAfterClose(logs, r, t) ==
    IF r.activeLogId # NoNumber THEN LogsAfterEnd(logs, r.activeLogId[1], t) ELSE logs

\* the Reset button: shown while the timer runs or is paused
handleReset(name) ==
    LET w == widgets[name]
    IN /\ w.timer.isRunning \/ w.timer.isPaused
       /\ WidgetStep("handleReset", name, items,
              LogsAfterClose(timeLogs, RenderOf(w), now),
              [w EXCEPT !.activeLogId = NoNumber,
                        !.timer = TimerAfterReset(w.timer),
                        !.notes = ""])
       /\ UNCHANGED idCount

\* handleStop of the render r, called as onComplete
WidgetAfterStop(w, r) ==
    [w EXCEPT !.activeLogId = IF r.activeLogId # NoNumber THEN NoNumber ELSE @,
              !.handed = IF r.activeLogId # NoNumber
                         THEN Append(@, r.elapsedSeconds) ELSE @,
              !.timer = TimerAfterReset(w.timer),
              !.notes = ""]

\* the callback of the interval of the widget's hook
widgetTick(name) ==
    LET w == widgets[name]
        ticked == TimerAfterTick(w.timer, now)
        complete == ticked.onComplete # w.timer.onComplete
    IN /\ w.timer.intervalRef # NoNumber
       /\ WidgetStep("widgetTick", name, items,
              IF complete THEN LogsAfterClose(timeLogs, w.captured, now) ELSE timeLogs,
              IF complete THEN WidgetAfterStop([w EXCEPT !.timer = ticked], w.captured)
              ELSE [w EXCEPT !.timer = ticked])
       /\ UNCHANGED idCount

\* the mode toggle: shown while the timer does not run
handleModeToggle(name) ==
    LET w == widgets[name]
        newMode == IF w.timer.mode = "stopwatch" THEN "countdown" ELSE "stopwatch"
    IN /\ ~w.timer.isRunning
       /\ WidgetStep("handleModeToggle", name, items, timeLogs,
              [w EXCEPT !.timer =
                  [@ EXCEPT !.mode = newMode,
                            !.targetDuration =
                                IF newMode = "countdown"
                                   /\ (@ = NoNumber \/ @ = <<0>>)
                                THEN <<DefaultTarget>> ELSE @]])
       /\ UNCHANGED idCount

\* the Apply button of the settings: shown in countdown mode while the timer
\* does not run
handleTargetChange(name, minutes) ==
    LET w == widgets[name]
    IN /\ ~w.timer.isRunning /\ w.timer.mode = "countdown"
       /\ minutes > 0
       /\ WidgetStep("handleTargetChange", name, items, timeLogs,
              [w EXCEPT !.timer.targetDuration = <<minutes * SecondsPerMinute>>])
       /\ UNCHANGED idCount

\* the props of the widgets: a stopwatch, and a countdown of two seconds
WidgetConfigs ==
    {[mode |-> "stopwatch", targetDuration |-> NoNumber],
     [mode |-> "countdown", targetDuration |-> <<2>>]}

WidgetInstants == {Epoch + k : k \in 0..MaxWidgetTicks}

Mounted == DOMAIN widgets

InitWidget ==
    /\ InitStore
    /\ now = Epoch
    /\ tz = 0
    /\ timer = Null
    /\ widgets = <<>>
    /\ otherTab = Null

\* one widget, with every handler it has, and the Start Timer of the TaskCard
NextWidget ==
    \/ /\ idCount = 0
       /\ createItem(ItemData(Title(1, "a"), "pending", "today"))
       /\ UNCHANGED calls
    \/ \E id \in ItemIds \ {0}, config \in WidgetConfigs : mount("A", id, config)
    \/ /\ Len(timeLogs) < MaxWidgetLogs
       /\ \E name \in Mounted : handleStart(name)
    \/ \E name \in Mounted : handlePause(name)
    \/ \E name \in Mounted : handleResume(name)
    \/ \E name \in Mounted : handleReset(name)
    \/ \E name \in Mounted : widgetTick(name)
    \/ \E name \in Mounted : handleModeToggle(name)
    \/ \E name \in Mounted : handleTargetChange(name, 1)
    \/ /\ Len(timeLogs) < MaxWidgetLogs
       /\ \E id \in ItemIds \ {0} : startTimeLog(id, <<>>)
       /\ UNCHANGED calls
    \/ advanceClock({t \in WidgetInstants : t > now})

SpecWidget == InitWidget /\ [][NextWidget]_vars

\* two widgets bound to the same task: their start, pause, resume and reset
\* events and the ticks of their stopwatches
NextWidgets ==
    \/ /\ idCount = 0
       /\ createItem(ItemData(Title(1, "a"), "pending", "today"))
       /\ UNCHANGED calls
    \/ \E name \in WidgetNames, id \in ItemIds \ {0} :
          mount(name, id, [mode |-> "stopwatch", targetDuration |-> NoNumber])
    \/ /\ Len(timeLogs) < MaxWidgetLogs
       /\ \E name \in Mounted : handleStart(name)
    \/ \E name \in Mounted : handlePause(name)
    \/ \E name \in Mounted : handleResume(name)
    \/ \E name \in Mounted : handleReset(name)
    \/ \E name \in Mounted : widgetTick(name)
    \/ advanceClock({t \in WidgetInstants : t > now})

SpecWidgets == InitWidget /\ [][NextWidgets]_vars

\* the widget of the last step, before and after it
Before == last.widgets[last.name]
After == widgets[last.name]

\* the last step was a tick of a widget at which its countdown completed
Completed ==
    /\ last.op = "widgetTick"
    /\ After.timer.onComplete = Before.timer.onComplete + 1

\* the stored logs with the id in `ref` (a number or null)
LogsWithId(ref) == {k \in 1..Len(timeLogs) : <<timeLogs[k].id>> = ref}

\* C32: for a TimerWidget bound to a plannerId, when the countdown started by
\* its Start button reaches the target, the time log opened by that start is
\* ended: after the completion the log has an endTime and a duration, and the
\* task has no active log left from this widget.
C32_CompletionEndsLog ==
    Completed
    => /\ Before.activeLogId # NoNumber
       /\ \A k \in LogsWithId(Before.activeLogId) :
             /\ timeLogs[k].plannerId = Before.plannerId
             /\ Has(timeLogs[k], "endTime")
             /\ Has(timeLogs[k], "duration")
       /\ After.activeLogId = NoNumber

----------------------------------------------------------------------------
(* Two tabs over the same storage.  The variables of the store are the store
   of the first tab; otherTab is the store of the second one. *)

\* SpecTabs: at most MaxTabItems tasks are created
MaxTabItems == 2

\* hydration: the persisted state merged over the initial state of the store
Hydrated(blob) == blob.state

\* what persist writes for the other tab
PersistedOf(tab) == [state |-> tab, version |-> STORAGE_VERSION]

\* a step of the other tab
TabStep(op, args, newTab, newStorage) ==
    /\ otherTab' = newTab
    /\ storage' = newStorage
    /\ last' = Pre(op, Merge(args, [otherTab |-> otherTab, storage |-> storage]))
    /\ UNCHANGED <<items, timeLogs, inlineEditMetadata, now, tz, timer, widgets,
                   calls>>

\* the page is opened in a second tab: its store hydrates from the storage
\* and persist writes what it hydrated
openTab ==
    /\ otherTab = Null
    /\ TabStep("openTab", <<>>, Hydrated(storage), PersistedOf(Hydrated(storage)))
    /\ UNCHANGED idCount

\* the second tab is reloaded
reloadTab ==
    /\ otherTab # Null
    /\ TabStep("reloadTab", <<>>, Hydrated(storage), PersistedOf(Hydrated(storage)))
    /\ UNCHANGED idCount

\* createItem in the second tab
tabCreateItem(itemData) ==
    /\ otherTab # Null
    /\ LET newItem == NewItem(otherTab.items, itemData, GenerateId, now)
           newTab == [otherTab EXCEPT !.items = Append(@, newItem)]
       IN TabStep("tabCreateItem", [itemData |-> itemData, ret |-> newItem],
                  newTab, PersistedOf(newTab))
    /\ idCount' = idCount + 1

\* getAllItems in the second tab
tabReadAllItems ==
    /\ otherTab # Null
    /\ TabStep("tabGetAllItems",
               [ret |-> SelectSeq(otherTab.items,
                                  LAMBDA item : item.status # "archived")],
               otherTab, storage)
    /\ UNCHANGED idCount

NextTabs ==
    \/ /\ idCount < MaxTabItems
       /\ \E d \in ItemInputs : createItem(d)
       /\ UNCHANGED calls
    \/ \E id \in ItemIds \ {0} : deleteItem(id) /\ UNCHANGED calls
    \/ readAllItems /\ UNCHANGED calls
    \/ openTab
    \/ reloadTab
    \/ /\ idCount < MaxTabItems
       /\ \E d \in ItemInputs : tabCreateItem(d)
    \/ tabReadAllItems
    \/ advanceClock({t \in Instants : t > now})

SpecTabs == Init /\ [][NextTabs]_vars

\* the tasks that a read of all tasks returns from what was persisted last
PersistedItems ==
    SelectSeq(storage.state.items, LAMBDA item : item.status # "archived")

\* C33: data syncs across browser tabs: with two tabs running the store over
\* the same persisted blob, a mutation performed in one tab is visible to the
\* reads of the store of the other tab without reloading it, so a read of all
\* tasks in either tab returns the tasks that were persisted last.
C33_TabsSync ==
    otherTab # Null
    => /\ last.op = "tabGetAllItems" => last.ret = PersistedItems
       /\ last.op = "getAllItems" => last.ret = PersistedItems

----------------------------------------------------------------------------
(* Widgets racing on one task *)

\* the log that the widget of the last step held had been ended before the step
HeldLogEnded ==
    /\ Before.activeLogId # NoNumber
    /\ LogById(last.timeLogs, Before.activeLogId[1]) # Null
    /\ Has(LogById(last.timeLogs, Before.activeLogId[1]), "endTime")

\* C34: for two TimerWidgets (or the Start Timer of a TaskCard and a widget)
\* bound to the same task, under every interleaving of their start, pause,
\* resume and reset events the task has at most one active log, and a reset
\* by the widget whose log was closed by the start of the other one leaves
\* the active log of the other one open and unchanged.
C34_RacingWidgets ==
    /\ \A id \in PlannerIdsOf(timeLogs) : Len(ActiveLogsOf(timeLogs, id)) <= 1
    /\ (last.op = "handleReset" /\ HeldLogEnded)
         => /\ timeLogs = last.timeLogs
            /\ ActiveLogsOf(timeLogs, Before.plannerId)
                 = ActiveLogsOf(last.timeLogs, Before.plannerId)

\* a widget resets after the start of another widget on the same task closed
\* its log; the log of the other widget is still the active one
C34_Witness ==
    /\ last.op = "handleReset"
    /\ HeldLogEnded
    /\ now > ParseISO(LogById(last.timeLogs, Before.activeLogId[1]).endTime)
    /\ \E other \in Mounted \ {last.name} :
          /\ widgets[other].plannerId = Before.plannerId
          /\ widgets[other].activeLogId # NoNumber
          /\ widgets[other].activeLogId # Before.activeLogId
          /\ ActiveLogsOf(timeLogs, Before.plannerId)
               = <<LogById(timeLogs, widgets[other].activeLogId[1])>>

----------------------------------------------------------------------------
(* The order values of a category *)

\* C35: in every state reached by createItem, deleteItem, clearCompleted,
\* toggleStatus, archiveItem and the time-log operations only (no reorderItems,
\* no updateItem or commitEdit of category or order), the order values of the
\* tasks of each category are pairwise distinct.
C35_OrdersDistinct ==
    \A i, j \in 1..Len(items) :
        (i # j /\ items[i].category = items[j].category)
        => items[i].order # items[j].order

\* a task was created in a category that holds an archived task and from
\* which the task of the lowest order was deleted: the orders have a gap
C35_Witness ==
    /\ last.op = "createItem"
    /\ Len(items) >= 2
    /\ Len(last.items) = Len(items) - 1
    /\ \E i \in 1..Len(last.items) :
          /\ items[i].category = items[Len(items)].category
          /\ items[i].status = "archived"
          /\ items[i].order > 0
    /\ \A i \in 1..Len(items) :
          items[i].category = items[Len(items)].category => items[i].order > 0

----------------------------------------------------------------------------
(* The editing mark and the descriptor *)

\* the tasks that are marked as being edited
MarkedTasks ==
    {i \in 1..Len(items) : Has(items[i], "isEditing") /\ items[i].isEditing = TRUE}

\* C36: in every reachable state a task has isEditing = true only if
\* inlineEditMetadata is not null and its itemId is the id of that task; hence
\* at most one task is marked as being edited, and the descriptor never names
\* a task that is no longer stored.
C36_EditingMarkMatchesDescriptor ==
    /\ \A i \in MarkedTasks :
          /\ inlineEditMetadata # Null
          /\ inlineEditMetadata.itemId = items[i].id
    /\ Cardinality(MarkedTasks) <= 1
    /\ (inlineEditMetadata # Null /\ Holds(last.items, inlineEditMetadata.itemId))
         => Holds(items, inlineEditMetadata.itemId)

----------------------------------------------------------------------------
(* The window totals against the day buckets, at UTC *)

\* SpecWindows: at most MaxWindowLogs logs are started
MaxWindowLogs == 2

\* instants thirty days, seven days and no day before the current one, and
\* half a second after the first two
WindowInstants ==
    {Epoch - ANALYTICS_WINDOW_30_DAYS * DayTicks,
     Epoch - ANALYTICS_WINDOW_30_DAYS * DayTicks + 1,
     Epoch - ANALYTICS_WINDOW_7_DAYS * DayTicks,
     Epoch - ANALYTICS_WINDOW_7_DAYS * DayTicks + 1,
     Epoch}

InitWindows ==
    /\ InitStore
    /\ timer = Null
    /\ widgets = <<>>
    /\ otherTab = Null
    /\ now = Epoch - ANALYTICS_WINDOW_30_DAYS * DayTicks
    /\ tz = 0

NextWindows ==
    \/ /\ idCount = 0
       /\ createItem(ItemData(Title(1, "a"), "pending", "today"))
       /\ UNCHANGED calls
    \/ /\ Len(timeLogs) < MaxWindowLogs
       /\ \E id \in ItemIds \ {0} : startTimeLog(id, <<>>)
       /\ UNCHANGED calls
    \/ \E id \in LogIds \ {0} : endTimeLog(id) /\ UNCHANGED calls
    \/ readTimeStats(<<>>) /\ UNCHANGED calls
    \/ \E days \in {ANALYTICS_WINDOW_7_DAYS, ANALYTICS_WINDOW_30_DAYS} :
          readDayAggregates(days) /\ UNCHANGED calls
    \/ advanceClock({t \in WindowInstants : t > now})

SpecWindows == InitWindows /\ [][NextWindows]_vars

\* the sum of totalDuration over the first n buckets
RECURSIVE BucketTotal(_, _)
BucketTotal(buckets, n) ==
    IF n = 0 THEN 0
    ELSE buckets[n].totalDuration + BucketTotal(buckets, n - 1)

\* C37: the window totals agree with the day buckets computed from the same
\* logs at the same instant: getTimeStats().last7Days is the sum of
\* totalDuration over the buckets of getDayAggregates(7), and
\* getTimeStats().last30Days is the sum over getDayAggregates(30), for every
\* content of the store.
C37_WindowsAgreeWithBuckets ==
    /\ (last.op = "getTimeStats" /\ last.now = now)
         => /\ last.ret.last7Days
                 = BucketTotal(getDayAggregates(ANALYTICS_WINDOW_7_DAYS),
                               Len(getDayAggregates(ANALYTICS_WINDOW_7_DAYS)))
            /\ last.ret.last30Days
                 = BucketTotal(getDayAggregates(ANALYTICS_WINDOW_30_DAYS),
                               Len(getDayAggregates(ANALYTICS_WINDOW_30_DAYS)))
    /\ (last.op = "getDayAggregates" /\ last.now = now)
         => BucketTotal(last.ret, Len(last.ret))
              = IF last.days = ANALYTICS_WINDOW_7_DAYS
                THEN getTimeStats(<<>>).last7Days
                ELSE getTimeStats(<<>>).last30Days

----------------------------------------------------------------------------
(* The states of useTimer *)

\* C38: in every reachable state of useTimer isRunning and isPaused are not
\* both true; start is a no-op while running, pause takes effect only while
\* running, resume takes effect only while paused, reset always leads to
\* elapsedSeconds = 0 with isRunning and isPaused false, and the ticks change
\* elapsedSeconds only while isRunning is true.
C38_TimerStates ==
    timer # Null
    => /\ ~(timer.isRunning /\ timer.isPaused)
       /\ (last.op = "start" /\ last.timer.isRunning) => timer = last.timer
       /\ last.op = "pause"
            => IF last.timer.isRunning
               THEN ~timer.isRunning /\ timer.isPaused
               ELSE timer = last.timer
       /\ last.op = "resume"
            => IF last.timer.isPaused
               THEN timer.isRunning /\ ~timer.isPaused
               ELSE timer = last.timer
       /\ last.op = "reset"
            => /\ timer.elapsedSeconds = 0
               /\ ~timer.isRunning
               /\ ~timer.isPaused
       /\ (last.op = "tick" /\ timer.elapsedSeconds # last.timer.elapsedSeconds)
            => last.timer.isRunning
       /\ (timer.intervalRef # NoNumber) => timer.isRunning

\* a timer that ran for a second was paused, resumed, and its next tick
\* showed another second
C38_Witness ==
    /\ timer # Null
    /\ last.op = "tick"
    /\ last.timer.isRunning
    /\ last.timer.accumulatedTimeRef > 0
    /\ timer.elapsedSeconds > last.timer.accumulatedTimeRef
    /\ timer.isRunning

----------------------------------------------------------------------------
(* The running widget and the active log *)

\* C39: whenever a TimerWidget bound to a stored task shows its timer as
\* running or paused after its own Start, the store holds an active time log
\* for that task, under any interleaving with the events of other widgets on
\* the same task.
C39_RunningWidgetHasActiveLog ==
    \A name \in Mounted :
        (/\ widgets[name].timer.isRunning \/ widgets[name].timer.isPaused
         /\ Holds(items, widgets[name].plannerId))
        => ActiveLogsOf(timeLogs, widgets[name].plannerId) # <<>>

----------------------------------------------------------------------------
(* The duration of the log against the time the widget shows *)

\* the last step closed the log `ref`, which was active before it
ClosedByLast(ref) ==
    /\ ref # NoNumber
    /\ LogById(last.timeLogs, ref[1]) # Null
    /\ IsActive(LogById(last.timeLogs, ref[1]))
    /\ Has(LogById(timeLogs, ref[1]), "duration")

\* the time that the widget showed before the last step is the one its
\* interval computes at that instant
ShownIsCurrent ==
    Before.timer.isRunning
    => Before.timer.elapsedSeconds = CurrentElapsed(Before.timer, last.now)

\* C40: when a TimerWidget closes the log it opened (reset or countdown
\* completion), the duration stored on that log equals the elapsedSeconds of
\* the timer at that moment (the value handed to onTimeLogComplete), also when
\* the timer was paused and resumed in between: paused time is not recorded
\* as tracked time.
C40_DurationIsElapsed ==
    /\ (last.op = "handleReset" /\ ClosedByLast(Before.activeLogId)
            /\ ShownIsCurrent)
         => LogById(timeLogs, Before.activeLogId[1]).duration
              = Before.timer.elapsedSeconds
    /\ (Completed /\ Before.captured # Null
            /\ ClosedByLast(Before.captured.activeLogId))
         => LET duration == LogById(timeLogs, Before.captured.activeLogId[1]).duration
            IN /\ duration = TimerAfterTick(Before.timer, last.now).elapsedSeconds
               /\ After.handed = Append(Before.handed, duration)

====
